---------------------------- MODULE Spec2Model ----------------------------
(***************************************************************************)
(* A model of the chippity CHIP-8 emulator: the virtual machine            *)
(* (src/src/chip8/mod.rs), its instruction decoder                         *)
(* (src/src/chip8/instruction.rs), the host clock loop                     *)
(* (src/src/emulator.rs) and the input peripheral the loop polls           *)
(* (src/src/driver/minifb.rs).                                             *)
(*                                                                         *)
(* The Chip8 struct is a record (memory, pc, stack, i_reg, v_reg,          *)
(* display_bus, input_bus, delay_timer, sound_timer).  Its methods are     *)
(* operators from a record to a result; a Rust panic is a result whose     *)
(* "panic" field names the message, and whose "sys" field holds whatever   *)
(* the method had already written when it panicked.                        *)
(***************************************************************************)
EXTENDS Integers, Sequences, FiniteSets, TLC

(***************************************************************************)
(* Program constants.                                                      *)
(***************************************************************************)
RAM_SIZE == 4096
FONT_START == 0
ROM_START == 512
ROM_END == 4095
NUM_DATA_REGS == 16
PC_STEP == 2
FONT_PX_HEIGHT == 5
DISPLAY_WIDTH == 64
DISPLAY_HEIGHT == 32
NUM_KEYS == 16
\* Bits of a usize: BitArr!(for NUM_KEYS) is one usize wide, so the key
\* vector holds, and can be indexed over, USIZE_BITS bits.
USIZE_BITS == 64
TIMER_FREQ == 60

U8 == 256
U16 == 65536

FONT_SPRITES ==
  << 240, 144, 144, 144, 240,   32,  96,  32,  32, 112,
     240,  16, 240, 128, 240,  240,  16, 240,  16, 240,
     144, 144, 240,  16,  16,  240, 128, 240,  16, 240,
     240, 128, 240, 144, 240,  240,  16,  32,  64,  64,
     240, 144, 240, 144, 240,  240, 144, 240,  16, 240,
     240, 144, 240, 144, 144,  224, 144, 224, 144, 224,
     240, 128, 128, 128, 240,  224, 144, 144, 144, 224,
     240, 128, 240, 128, 240,  240, 128, 240, 128, 128 >>

(***************************************************************************)
(* Bit arithmetic on unsigned integers.                                    *)
(***************************************************************************)
Bit(v, i) == (v \div (2 ^ i)) % 2

RECURSIVE BitFold(_, _, _, _)
\* Combine a and b bit by bit over w bits; f is "and", "or" or "xor".
BitFold(f, a, b, w) ==
  IF w = 0 THEN 0
  ELSE LET x == a % 2
           y == b % 2
           z == IF f = "and" THEN x * y
                ELSE IF f = "or" THEN (IF x + y > 0 THEN 1 ELSE 0)
                ELSE (x + y) % 2
       IN  z + 2 * BitFold(f, a \div 2, b \div 2, w - 1)

BitAnd8(a, b) == BitFold("and", a, b, 8)
BitOr8(a, b) == BitFold("or", a, b, 8)
BitXor8(a, b) == BitFold("xor", a, b, 8)

(***************************************************************************)
(* The instruction decoder: a 16-bit bitfield of four nibbles, built from  *)
(* two bytes given least significant first.                                *)
(***************************************************************************)
\* The bitfield filled from the two bytes taken most significant first.
from_bytes_HighFirst(lb, hb) ==
  [n3 |-> hb % 16, n2 |-> hb \div 16, n1 |-> lb % 16, n0 |-> lb \div 16]

from_bytes(lb, hb) ==
  [n3 |-> lb % 16, n2 |-> lb \div 16, n1 |-> hb % 16, n0 |-> hb \div 16]

\* u16::from(instr)
into_u16(instr) == instr.n0 * 4096 + instr.n1 * 256 + instr.n2 * 16 + instr.n3

get_o(instr) == instr.n0
get_nnn(instr) == BitFold("or", BitFold("or", instr.n1 * 256, instr.n2 * 16, 16), instr.n3, 16)
get_nn(instr) == BitOr8((instr.n2 * 16) % U8, instr.n3)
\* The last nibble without its top bit.
get_n_Low3(i) == i.n3 % 8

get_n(instr) == instr.n3
get_x(instr) == instr.n1
get_y(instr) == instr.n2

\* The instruction a 16-bit word decodes to, as fetch builds it from the
\* big-endian byte pair (high byte first in memory).
InstrOf(w) == from_bytes(w % 256, w \div 256)

(***************************************************************************)
(* Chip8::new and Chip8::load_fonts.                                       *)
(***************************************************************************)
load_fonts(s) ==
  [s EXCEPT !.memory =
      [a \in FONT_START .. FONT_START + Len(FONT_SPRITES) - 1 |->
          FONT_SPRITES[a - FONT_START + 1]] @@ @]

new ==
  load_fonts([memory |-> [a \in 0 .. RAM_SIZE - 1 |-> 0],
              pc |-> ROM_START,
              stack |-> << >>,
              i_reg |-> 0,
              v_reg |-> [r \in 0 .. NUM_DATA_REGS - 1 |-> 0],
              display_bus |-> {},
              input_bus |-> {},
              delay_timer |-> 0,
              sound_timer |-> 0])

NoPanic == "none"

(***************************************************************************)
(* Chip8::load_rom.                                                        *)
(***************************************************************************)
\* load_rom copying the ROM to the bottom of memory.
load_rom_ZeroBased(s, data) ==
  IF Len(data) > ROM_END - ROM_START
  THEN [sys |-> s, panic |-> "Insufficient memory: invalid ROM"]
  ELSE [sys |-> [s EXCEPT !.memory = [a \in 0 .. Len(data) - 1 |-> data[a + 1]] @@ @],
        panic |-> NoPanic]

load_rom(s, data) ==
  LET rom_size == Len(data)
      start == ROM_START
      end == ROM_START + rom_size
  IN  IF rom_size > ROM_END - ROM_START
      THEN [sys |-> s, panic |-> "Insufficient memory: invalid ROM"]
      ELSE [sys |-> [s EXCEPT !.memory =
                        [a \in start .. end - 1 |-> data[a - start + 1]] @@ @],
            panic |-> NoPanic]

\* tick_timers deciding its signal after the decrement.
tick_timers_SignalAfter(s) ==
  LET s1 == IF s.delay_timer > 0
            THEN [s EXCEPT !.delay_timer = s.delay_timer - 1] ELSE s
      s2 == IF s1.sound_timer > 0
            THEN [s1 EXCEPT !.sound_timer = s1.sound_timer - 1] ELSE s1
  IN  [sys |-> s2, status |-> IF s2.sound_timer > 0 THEN "SoundAudio" ELSE "None"]

(***************************************************************************)
(* Chip8::tick_timers.                                                     *)
(***************************************************************************)
tick_timers(s) ==
  LET s1 == IF s.delay_timer > 0
            THEN [s EXCEPT !.delay_timer = s.delay_timer - 1] ELSE s
  IN  IF s1.sound_timer > 0
      THEN [sys |-> [s1 EXCEPT !.sound_timer = s1.sound_timer - 1],
            status |-> "SoundAudio"]
      ELSE [sys |-> s1, status |-> "None"]

\* fetch_instruction refusing the first address of the program too.
fetch_instruction_LowExclusive(s) ==
  IF s.pc <= ROM_START \/ s.pc >= ROM_END
  THEN [instr |-> from_bytes(0, 0), panic |-> "Segfault: invalid ROM"]
  ELSE [instr |-> from_bytes(s.memory[s.pc + 1], s.memory[s.pc]), panic |-> NoPanic]

(***************************************************************************)
(* Chip8::fetch_instruction.                                               *)
(***************************************************************************)
fetch_instruction(s) ==
  IF s.pc < ROM_START \/ s.pc >= ROM_END
  THEN [instr |-> from_bytes(0, 0), panic |-> "Segfault: invalid ROM"]
  ELSE LET hb == s.memory[s.pc]
           lb == s.memory[s.pc + 1]
       IN  [instr |-> from_bytes(lb, hb), panic |-> NoPanic]

(***************************************************************************)
(* Chip8::receive_input, transmit_audio, transmit_frame.  An                *)
(* Option<InputMsg> is a record: "some" tells Some from None, and "bits"   *)
(* is the set of indices of the bits that are 1 (keys that are down).  A   *)
(* bit array is everywhere the set of the indices of its 1 bits.           *)
(***************************************************************************)
None == [some |-> FALSE, bits |-> {}]
Some(bits) == [some |-> TRUE, bits |-> bits]

\* receive_input adding the new key states to the old ones.
receive_input_Or(s, msg) ==
  IF msg.some THEN [s EXCEPT !.input_bus = @ \cup msg.bits] ELSE s

receive_input(s, msg) ==
  IF msg.some THEN [s EXCEPT !.input_bus = msg.bits] ELSE s

transmit_audio(s) == s.sound_timer > 0

\* A frame with every pixel off.
transmit_frame_Blank(s) == {}

transmit_frame(s) == s.display_bus

(***************************************************************************)
(* Chip8::exec_instruction.  Each arm of the match is an operator giving   *)
(* the result of the arm and of the "if incr_pc" that follows the match.   *)
(***************************************************************************)
\* The tail of exec_instruction: step the PC unless the arm cleared
\* incr_pc, and return the arm's status.
Finish(s, incr_pc, status) ==
  [sys |-> IF incr_pc THEN [s EXCEPT !.pc = (s.pc + PC_STEP) % U16] ELSE s,
   status |-> status,
   panic |-> NoPanic]

\* A panic inside an arm: the struct keeps what was written before it.
Abort(s, msg) == [sys |-> s, status |-> "None", panic |-> msg]

SetV(s, x, val) == [s EXCEPT !.v_reg[x] = val]

\* 00E0 leaving the display as it is.
ExecCLRS_NoFill(s) == Finish(s, TRUE, "RefreshDisplay")

\* 00E0 - CLRS
ExecCLRS(s) == Finish([s EXCEPT !.display_bus = {}], TRUE, "RefreshDisplay")

\* RET with incr_pc cleared, as a jump clears it.
ExecRET_NoStep(s) ==
  IF s.stack = << >>
  THEN Abort(s, "Segfault: invalid ROM")
  ELSE Finish([s EXCEPT !.stack = SubSeq(s.stack, 1, Len(s.stack) - 1),
                        !.pc = s.stack[Len(s.stack)]],
              FALSE, "None")

\* RET restarting the program when there is nothing to return to.
ExecRET_Default(s) ==
  IF s.stack = << >>
  THEN Finish([s EXCEPT !.pc = ROM_START], FALSE, "None")
  ELSE Finish([s EXCEPT !.stack = SubSeq(s.stack, 1, Len(s.stack) - 1),
                        !.pc = s.stack[Len(s.stack)]],
              TRUE, "None")

\* 00EE - RET
ExecRET(s) ==
  IF s.stack = << >>
  THEN Abort(s, "Segfault: invalid ROM")
  ELSE LET ret_addr == s.stack[Len(s.stack)]
       IN  Finish([s EXCEPT !.stack = SubSeq(s.stack, 1, Len(s.stack) - 1),
                            !.pc = ret_addr],
                  TRUE, "None")

\* 0NNN - SYSC addr
ExecSYSC_Fatal(s) == Abort(s, "Encountered unsupported instruction")

ExecSYSC(s) == Finish(s, TRUE, "None")

\* 1NNN - JMP addr
ExecJMP(s, addr) == Finish([s EXCEPT !.pc = addr], FALSE, "None")

\* CALL pushing the address of the instruction after it.
ExecCALL_PushNext(s, addr) ==
  Finish([s EXCEPT !.stack = Append(s.stack, s.pc + PC_STEP), !.pc = addr],
         FALSE, "None")

\* 2NNN - CALL addr
ExecCALL(s, addr) ==
  Finish([s EXCEPT !.stack = Append(s.stack, s.pc), !.pc = addr], FALSE, "None")

\* A skip that sets the PC past the next instruction and then steps again.
ExecSkip_Twice(s, cond) ==
  Finish(IF cond THEN [s EXCEPT !.pc = (s.pc + 2 * PC_STEP) % U16] ELSE s,
         TRUE, "None")

\* 3XNN, 4XNN, 5XY0, 9XY0, EX9E, EXA1: the arm's "if cond { pc += PC_STEP }"
ExecSkip(s, cond) ==
  Finish(IF cond THEN [s EXCEPT !.pc = (s.pc + PC_STEP) % U16] ELSE s,
         TRUE, "None")

\* Vx += val
ExecLD_Add(s, x, val) == Finish(SetV(s, x, (s.v_reg[x] + val) % U8), TRUE, "None")

\* 6XNN, 7XNN, 8XY0 - 8XY3, CXNN, FX07: Vx = val
ExecLD(s, x, val) == Finish(SetV(s, x, val), TRUE, "None")

\* VF = flag, then Vx = val
ExecFlag_FlagFirst(s, x, val, flag) ==
  Finish(SetV(SetV(s, 15, flag), x, val), TRUE, "None")

\* 8XY4, 8XY5, 8XY6, 8XY7, 8XYE: Vx = val, then VF = flag
ExecFlag(s, x, val, flag) == Finish(SetV(SetV(s, x, val), 15, flag), TRUE, "None")

\* An addition that reports overflow only past 2^8, and a subtraction
\* that reports a borrow for equal operands too.
overflowing_add_Late(a, b) == << (a + b) % U8, IF a + b > U8 THEN 1 ELSE 0 >>
overflowing_sub_Equal(a, b) == << (a - b + U8) % U8, IF a <= b THEN 1 ELSE 0 >>

\* u8::overflowing_add and u8::overflowing_sub: <<wrapped result, overflowed>>
overflowing_add(a, b) == << (a + b) % U8, IF a + b >= U8 THEN 1 ELSE 0 >>
overflowing_sub(a, b) == << (a - b + U8) % U8, IF a < b THEN 1 ELSE 0 >>

\* An addition that stops at 0xFF.
wrapping_add_Saturating(a, b) == IF a + b >= U8 THEN U8 - 1 ELSE a + b

\* u8::wrapping_add
wrapping_add(a, b) == (a + b) % U8

\* A right shift of Vy into Vx.
ExecSHR_FromVy(s, x, y) ==
  ExecFlag(s, x, s.v_reg[y] \div 2, BitAnd8(s.v_reg[y], 1))

\* 8XY6 - SHR Vx: lsb = Vx & 1; Vx >>= 1; VF = lsb
ExecSHR(s, x, y) ==
  LET lsb == BitAnd8(s.v_reg[x], 1)
  IN  ExecFlag(s, x, s.v_reg[x] \div 2, lsb)

\* 8XYE - SHL Vx: msb = (Vx >> 7) & 1; Vx <<= 1; VF = msb
ExecSHL(s, x, y) ==
  LET msb == BitAnd8(s.v_reg[x] \div (2 ^ 7), 1)
  IN  ExecFlag(s, x, (s.v_reg[x] * 2) % U8, msb)

\* The jump target kept inside the 12-bit address space.
ExecJMPV0_Masked(s, addr) ==
  Finish([s EXCEPT !.pc = (addr + s.v_reg[0]) % RAM_SIZE], FALSE, "None")

\* BNNN - JMP V0, addr
ExecJMPV0(s, addr) == Finish([s EXCEPT !.pc = (addr + s.v_reg[0]) % U16], FALSE, "None")

OutOfBounds == "index out of bounds"

\* self.input_bus[k]: the bit array is USIZE_BITS bits long.
KeyInRange(k) == k < USIZE_BITS
KeyDown(s, k) == k \in s.input_bus

\* EX9E - SKP Vx (want_down) and EXA1 - SKNP Vx (~want_down)
ExecSkipKey(s, x, want_down) ==
  IF ~KeyInRange(s.v_reg[x])
  THEN Abort(s, OutOfBounds)
  ELSE ExecSkip(s, KeyDown(s, s.v_reg[x]) = want_down)

\* A search that finds no key.
PositionFrom_None(bus, rand) == -1

\* self.input_bus.iter().skip(rand).position(|key_down| *key_down):
\* the offset from rand of the first bit at or after rand that is 1, or -1
\* for None.
PositionFrom(bus, rand) ==
  LET hits == {k \in bus : k >= rand /\ k < USIZE_BITS}
  IN  IF hits = {} THEN -1
      ELSE (CHOOSE k \in hits : \A j \in hits : k <= j) - rand

\* FX0A taking the key it found off the input vector.
ExecKeyWait_Consume(s, x, rand) ==
  LET k_idx == PositionFrom(s.input_bus, rand)
  IN  IF k_idx >= 0
      THEN Finish([SetV(s, x, (rand + k_idx) % U8) EXCEPT !.input_bus = @ \ {rand + k_idx}],
                  TRUE, "None")
      ELSE Finish(s, FALSE, "None")

\* FX0A - LD Vx, K; rand is the value fastrand::usize(0..NUM_KEYS) returned
ExecKeyWait(s, x, rand) ==
  LET k_idx == PositionFrom(s.input_bus, rand)
  IN  IF k_idx >= 0
      THEN Finish(SetV(s, x, (rand + k_idx) % U8), TRUE, "None")
      ELSE Finish(s, FALSE, "None")

RECURSIVE DrawBits_Or(_, _, _, _, _)
\* The inner loop of DXYN with the sprite ORed onto the display.
DrawBits_Or(s, byte, coord, coord_y, dx) ==
  IF dx >= 8 THEN s
  ELSE LET bit == Bit(byte, 7 - dx) = 1
           coord_x == (coord[1] + dx) % DISPLAY_WIDTH
           idx == coord_y * DISPLAY_WIDTH + coord_x
           display_bit == idx \in s.display_bus
       IN  IF display_bit /\ bit
           THEN DrawBits_Or([s EXCEPT !.v_reg[15] = 1],
                            byte, coord, coord_y, dx + 1)
           ELSE IF bit
           THEN DrawBits_Or([s EXCEPT !.display_bus = @ \cup {idx}],
                            byte, coord, coord_y, dx + 1)
           ELSE DrawBits_Or(s, byte, coord, coord_y, dx + 1)

RECURSIVE DrawBits(_, _, _, _, _)
\* The inner loop of DXYN over the bits of one sprite byte, MSB first, from
\* bit dx on; coord_y is the display row of the byte.  A 0 bit leaves both
\* VF (|= display_bit & 0) and the display bit (^ 0) as they are.
DrawBits(s, byte, coord, coord_y, dx) ==
  IF dx >= 8 THEN s
  ELSE LET bit == Bit(byte, 7 - dx) = 1
           coord_x == (coord[1] + dx) % DISPLAY_WIDTH
           idx == coord_y * DISPLAY_WIDTH + coord_x
           display_bit == idx \in s.display_bus
       IN  IF display_bit /\ bit
           THEN DrawBits([s EXCEPT !.v_reg[15] = 1, !.display_bus = @ \ {idx}],
                         byte, coord, coord_y, dx + 1)
           ELSE IF bit
           THEN DrawBits([s EXCEPT !.display_bus = @ \cup {idx}],
                         byte, coord, coord_y, dx + 1)
           ELSE DrawBits(s, byte, coord, coord_y, dx + 1)

RECURSIVE DrawRows(_, _, _, _)
\* The outer loop of DXYN over the bytes of the sprite from byte dy on;
\* sprite is the slice memory[I .. I + n], coord the pair <<Vx, Vy>>.
DrawRows(s, sprite, coord, dy) ==
  IF dy >= Len(sprite) THEN s
  ELSE LET coord_y == (coord[2] + dy) % DISPLAY_HEIGHT
       IN  DrawRows(DrawBits(s, sprite[dy + 1], coord, coord_y, 0),
                    sprite, coord, dy + 1)

\* DXYN reading the coordinates after VF has been cleared.
ExecDRAW_FlagFirst(s, x, y, n) ==
  IF s.i_reg + n >= U16 \/ s.i_reg + n > RAM_SIZE
  THEN Abort(s, OutOfBounds)
  ELSE LET sprite == [r \in 1 .. n |-> s.memory[s.i_reg + r - 1]]
           s0 == SetV(s, 15, 0)
           coord == << s0.v_reg[x], s0.v_reg[y] >>
       IN  Finish(DrawRows(s0, sprite, coord, 0), TRUE, "RefreshDisplay")

\* DXYN - DRAW Vx, Vy, nibble
ExecDRAW(s, x, y, n) ==
  IF s.i_reg + n >= U16 \/ s.i_reg + n > RAM_SIZE
  THEN Abort(s, OutOfBounds)
  ELSE LET sprite == [r \in 1 .. n |-> s.memory[s.i_reg + r - 1]]
           coord == << s.v_reg[x], s.v_reg[y] >>
           s0 == SetV(s, 15, 0)
       IN  Finish(DrawRows(s0, sprite, coord, 0), TRUE, "RefreshDisplay")

RECURSIVE StoreBytes(_, _, _)
\* self.memory[I + k] = bytes[k + 1] for k = from .., one index at a time;
\* an index past the end of memory panics after the earlier writes.
StoreBytes(s, bytes, from) ==
  IF from >= Len(bytes) THEN Finish(s, TRUE, "None")
  ELSE IF s.i_reg + from >= RAM_SIZE THEN Abort(s, OutOfBounds)
  ELSE StoreBytes([s EXCEPT !.memory[s.i_reg + from] = bytes[from + 1]],
                  bytes, from + 1)

\* The n-th decimal digit of val with the digits above it.
Digit_NoMod(val, n) == val \div (10 ^ n)

\* The closure d of FX33: the n-th decimal digit of val
Digit(val, n) == (val \div (10 ^ n)) % 10

\* FX33 - LD [I], D2(Vx) ...
ExecBCD(s, x) ==
  LET vx == s.v_reg[x]
  IN  StoreBytes(s, << Digit(vx, 2), Digit(vx, 1), Digit(vx, 0) >>, 0)

\* FX55 leaving I past the last byte written.
ExecDump_Advance(s, x) ==
  LET r == StoreBytes(s, [k \in 1 .. x + 1 |-> s.v_reg[k - 1]], 0)
  IN  [r EXCEPT !.sys.i_reg = (s.i_reg + x + 1) % U16]

\* FX55 - LD [I], V0 .. Vx
ExecDump(s, x) == StoreBytes(s, [k \in 1 .. x + 1 |-> s.v_reg[k - 1]], 0)

RECURSIVE LoadRegs(_, _, _)
\* FX65 - LD V0 .. Vx, [I]: self.v_reg[offset] = self.memory[I + offset]
LoadRegs(s, x, offset) ==
  IF offset > x THEN Finish(s, TRUE, "None")
  ELSE IF s.i_reg + offset >= RAM_SIZE THEN Abort(s, OutOfBounds)
  ELSE LoadRegs(SetV(s, offset, s.memory[s.i_reg + offset]), x, offset + 1)

\* FX15, FX18, FX1E, FX29, ANNN: one field assigned
ExecSetDT(s, x) == Finish([s EXCEPT !.delay_timer = s.v_reg[x]], TRUE, "None")
ExecSetST(s, x) == Finish([s EXCEPT !.sound_timer = s.v_reg[x]], TRUE, "None")
\* I kept inside the 12-bit address space.
ExecSetI_Masked(s, val) == Finish([s EXCEPT !.i_reg = val % RAM_SIZE], TRUE, "None")

ExecSetI(s, val) == Finish([s EXCEPT !.i_reg = val], TRUE, "None")

Unrecognized == "Encountered unrecognized instruction"

\* The match of exec_instruction, arm by arm in the order of the source.
\* rnd.key is what fastrand::usize(0..NUM_KEYS) returns and rnd.byte what
\* fastrand::u8(..) returns, should the arm call them.
exec_instruction(s, instr, rnd) ==
  LET o == get_o(instr)
      x == get_x(instr)
      y == get_y(instr)
      n == get_n(instr)
      vx == s.v_reg[x]
      vy == s.v_reg[y]
  IN  IF o = 0 /\ x = 0 /\ y = 14 /\ n = 0 THEN ExecCLRS(s)
      ELSE IF o = 0 /\ x = 0 /\ y = 14 /\ n = 14 THEN ExecRET(s)
      ELSE IF o = 0 THEN ExecSYSC(s)
      ELSE IF o = 1 THEN ExecJMP(s, get_nnn(instr))
      ELSE IF o = 2 THEN ExecCALL(s, get_nnn(instr))
      ELSE IF o = 3 THEN ExecSkip(s, vx = get_nn(instr))
      ELSE IF o = 4 THEN ExecSkip(s, vx # get_nn(instr))
      ELSE IF o = 5 /\ n = 0 THEN ExecSkip(s, vx = vy)
      ELSE IF o = 6 THEN ExecLD(s, x, get_nn(instr))
      ELSE IF o = 7 THEN ExecLD(s, x, wrapping_add(vx, get_nn(instr)))
      ELSE IF o = 8 /\ n = 0 THEN ExecLD(s, x, vy)
      ELSE IF o = 8 /\ n = 1 THEN ExecLD(s, x, BitOr8(vx, vy))
      ELSE IF o = 8 /\ n = 2 THEN ExecLD(s, x, BitAnd8(vx, vy))
      ELSE IF o = 8 /\ n = 3 THEN ExecLD(s, x, BitXor8(vx, vy))
      ELSE IF o = 8 /\ n = 4
        THEN ExecFlag(s, x, overflowing_add(vx, vy)[1], overflowing_add(vx, vy)[2])
      ELSE IF o = 8 /\ n = 5
        THEN ExecFlag(s, x, overflowing_sub(vx, vy)[1], 1 - overflowing_sub(vx, vy)[2])
      ELSE IF o = 8 /\ n = 6 THEN ExecSHR(s, x, y)
      ELSE IF o = 8 /\ n = 7
        THEN ExecFlag(s, x, overflowing_sub(vy, vx)[1], 1 - overflowing_sub(vy, vx)[2])
      ELSE IF o = 8 /\ n = 14 THEN ExecSHL(s, x, y)
      ELSE IF o = 9 /\ n = 0 THEN ExecSkip(s, vx # vy)
      ELSE IF o = 10 THEN ExecSetI(s, get_nnn(instr))
      ELSE IF o = 11 THEN ExecJMPV0(s, get_nnn(instr))
      ELSE IF o = 12 THEN ExecLD(s, x, BitAnd8(rnd.byte, get_nn(instr)))
      ELSE IF o = 13 THEN ExecDRAW(s, x, y, n)
      ELSE IF o = 14 /\ y = 9 /\ n = 14 THEN ExecSkipKey(s, x, TRUE)
      ELSE IF o = 14 /\ y = 10 /\ n = 1 THEN ExecSkipKey(s, x, FALSE)
      ELSE IF o = 15 /\ y = 0 /\ n = 7 THEN ExecLD(s, x, s.delay_timer)
      ELSE IF o = 15 /\ y = 0 /\ n = 10 THEN ExecKeyWait(s, x, rnd.key)
      ELSE IF o = 15 /\ y = 1 /\ n = 5 THEN ExecSetDT(s, x)
      ELSE IF o = 15 /\ y = 1 /\ n = 8 THEN ExecSetST(s, x)
      ELSE IF o = 15 /\ y = 1 /\ n = 14 THEN ExecSetI(s, (s.i_reg + vx) % U16)
      ELSE IF o = 15 /\ y = 2 /\ n = 9 THEN ExecSetI(s, FONT_START + vx * FONT_PX_HEIGHT)
      ELSE IF o = 15 /\ y = 3 /\ n = 3 THEN ExecBCD(s, x)
      ELSE IF o = 15 /\ y = 5 /\ n = 5 THEN ExecDump(s, x)
      ELSE IF o = 15 /\ y = 6 /\ n = 5 THEN LoadRegs(s, x, 0)
      ELSE Abort(s, Unrecognized)

(***************************************************************************)
(* The state: the fields of the Chip8 struct, the Emulator and its run     *)
(* loop, the input peripheral, and what the peripherals last received.     *)
(***************************************************************************)
VARIABLES
  memory, pc, stack, i_reg, v_reg, display_bus, input_bus,
  delay_timer, sound_timer,   \* Chip8
  clock_rate,                 \* Emulator.clock_rate, in Hz
  phase,                      \* where main / Emulator::run stands
  now,                        \* time since `master`, in clock units
  start,                      \* `start` of the current iteration, since master
  tick_next,                  \* local of run
  event,                      \* local of run
  keybuf,                     \* the input peripheral's key buffer
  frame,                      \* what the display peripheral last received
  tone,                       \* what the audio peripheral last received
  last,                       \* the last Chip8 method called and its result
  hist,                       \* what the run loop has done so far
  ops                         \* number of Chip8 methods called directly

chip8 == << memory, pc, stack, i_reg, v_reg, display_bus, input_bus,
            delay_timer, sound_timer >>
host == << clock_rate, phase, now, start, tick_next, event, keybuf, frame,
           tone, hist >>
vars == << chip8, host, last, ops >>

\* The Chip8 struct as it stands, and the assignment of a new one.
Sys ==
  [memory |-> memory, pc |-> pc, stack |-> stack, i_reg |-> i_reg,
   v_reg |-> v_reg, display_bus |-> display_bus, input_bus |-> input_bus,
   delay_timer |-> delay_timer, sound_timer |-> sound_timer]

SetSys(s) ==
  /\ memory' = s.memory
  /\ pc' = s.pc
  /\ stack' = s.stack
  /\ i_reg' = s.i_reg
  /\ v_reg' = s.v_reg
  /\ display_bus' = s.display_bus
  /\ input_bus' = s.input_bus
  /\ delay_timer' = s.delay_timer
  /\ sound_timer' = s.sound_timer

\* The next-state value of the struct, for properties of one step.
SysNext ==
  [memory |-> memory', pc |-> pc', stack |-> stack', i_reg |-> i_reg',
   v_reg |-> v_reg', display_bus |-> display_bus', input_bus |-> input_bus',
   delay_timer |-> delay_timer', sound_timer |-> sound_timer']

\* A record of one method call: the instruction word executed or fetched
\* (-1 if none), the status returned, the panic raised, the length of the
\* ROM given to load_rom (-1 if none) and the message given to
\* receive_input.
Call(op, instr, status, panic, len, msg) ==
  [op |-> op, instr |-> instr, status |-> status, panic |-> panic,
   len |-> len, msg |-> msg]

DEFAULT_CLOCK_FREQ == 960

\* What a peripheral was last handed: nothing yet, or a message.
NeverPushed == [pushed |-> FALSE, msg |-> {}]
Pushed(m) == [pushed |-> TRUE, msg |-> m]

\* What the run loop has done: the steps of the current iteration in the
\* order taken; the millisecond of the last call of tick_timers and of the
\* last raising of tick_next; what the last poll returned; the millisecond
\* at which FX15 last set the delay timer (-1: never).
NoHist ==
  [steps |-> << >>, last_tick |-> -1, armed |-> -1, polled |-> "None",
   dt_set |-> -1, elapsed |-> -1, slept |-> -1, calls |-> 0, rets |-> 0]

\* Emulator::with_peripherals: a fresh Chip8 and the default clock rate.
Init ==
  /\ memory = new.memory
  /\ pc = new.pc
  /\ stack = new.stack
  /\ i_reg = new.i_reg
  /\ v_reg = new.v_reg
  /\ display_bus = new.display_bus
  /\ input_bus = new.input_bus
  /\ delay_timer = new.delay_timer
  /\ sound_timer = new.sound_timer
  /\ clock_rate = DEFAULT_CLOCK_FREQ
  /\ phase = "new"
  /\ now = 0
  /\ start = 0
  /\ tick_next = FALSE
  /\ event = "None"
  /\ keybuf = {}
  /\ frame = NeverPushed
  /\ tone = NeverPushed
  /\ last = Call("new", -1, "None", NoPanic, -1, None)
  /\ hist = NoHist
  /\ ops = 0

(***************************************************************************)
(* The Chip8 methods called one at a time, as a test harness or any other  *)
(* owner of the struct may call them.  A panic ends the process.           *)
(***************************************************************************)
MaxOps == 4

Alive == last.panic = NoPanic /\ ops < MaxOps

\* What the random source may return to an instruction: every key index
\* for FX0A, a few bytes for CXNN, and nothing that matters otherwise.
RandBytes == {0, 15, 165, 255}
RandsFor(w) ==
  IF w \div 4096 = 15 /\ w % 256 = 10
  THEN {[key |-> k, byte |-> 0] : k \in 0 .. NUM_KEYS - 1}
  ELSE IF w \div 4096 = 12
  THEN {[key |-> 0, byte |-> b] : b \in RandBytes}
  ELSE {[key |-> 0, byte |-> 0]}

\* A ROM is loaded once, into the struct as constructed.
CallLoadRom(data) ==
  /\ Alive
  /\ last.op = "new"
  /\ LET r == load_rom(Sys, data)
     IN  /\ SetSys(r.sys)
         /\ last' = Call("load_rom", -1, "None", r.panic, Len(data), None)
  /\ ops' = ops + 1
  /\ UNCHANGED host

CallFetch ==
  /\ Alive
  /\ LET r == fetch_instruction(Sys)
     IN  last' = Call("fetch", into_u16(r.instr), "None", r.panic, -1, None)
  /\ ops' = ops + 1
  /\ UNCHANGED << chip8, host >>

CallExec(w, rnd) ==
  /\ Alive
  /\ LET r == exec_instruction(Sys, InstrOf(w), rnd)
     IN  /\ SetSys(r.sys)
         /\ last' = Call("exec", w, r.status, r.panic, -1, None)
  /\ ops' = ops + 1
  /\ UNCHANGED host

CallTick ==
  /\ Alive
  /\ LET r == tick_timers(Sys)
     IN  /\ SetSys(r.sys)
         /\ last' = Call("tick", -1, r.status, NoPanic, -1, None)
  /\ ops' = ops + 1
  /\ UNCHANGED host

CallReceive(msg) ==
  /\ Alive
  /\ SetSys(receive_input(Sys, msg))
  /\ last' = Call("receive", -1, "None", NoPanic, -1, msg)
  /\ ops' = ops + 1
  /\ UNCHANGED host

\* The methods called with instructions from I, messages from M and ROMs
\* from R.
Calls(I, M, R) ==
  \/ \E data \in R : CallLoadRom(data)
  \/ CallFetch
  \/ \E w \in I : \E rnd \in RandsFor(w) : CallExec(w, rnd)
  \/ CallTick
  \/ \E msg \in M : CallReceive(msg)

\* The fields of an instruction word, as the specification names them.
WordO(w) == w \div 4096
WordX(w) == (w \div 256) % 16
WordY(w) == (w \div 16) % 16
WordN(w) == w % 16
WordNN(w) == w % 256
WordNNN(w) == w % 4096

WordIsSetDT(w) == WordO(w) = 15 /\ WordNN(w) = 21

(***************************************************************************)
(* main and Emulator::run.  Time is in microseconds since `master`.        *)
(***************************************************************************)
\* Duration::from_secs_f32(1.0 / freq), to the microsecond, and as_millis.
DurationOfCycle(freq) == 1000000 \div freq
AsMillis(d) == d \div 1000

t_c8timer == DurationOfCycle(TIMER_FREQ)

\* The match on (start - master).as_millis() % t_c8timer.as_millis():
\* whether tick_timers is called, and tick_next after the match.
TimerCheck_NoFlag(ms, flag) ==
  LET r == ms % AsMillis(t_c8timer)
  IN  [tick |-> r = 0, tick_next |-> flag]

TimerCheck(ms, flag) ==
  LET r == ms % AsMillis(t_c8timer)
  IN  IF r = 0 THEN [tick |-> flag, tick_next |-> IF flag THEN FALSE ELSE flag]
      ELSE IF r = 1 THEN [tick |-> FALSE, tick_next |-> TRUE]
      ELSE [tick |-> FALSE, tick_next |-> flag]

\* Minifb::handle_inputs: the signal returned and the key buffer left, the
\* window being open or not and `keys` being the keys held down.
\* A poll that reports only keys newly pressed.
handle_inputs_Pressed(buf, open, keys) ==
  IF ~open THEN [signal |-> "ProgramExit", keybuf |-> {}]
  ELSE [signal |-> IF keys \ buf # {} THEN "NewInputs" ELSE "None", keybuf |-> keys]

handle_inputs(buf, open, keys) ==
  IF ~open THEN [signal |-> "ProgramExit", keybuf |-> {}]
  ELSE [signal |-> IF keys # buf THEN "NewInputs" ELSE "None", keybuf |-> keys]

\* Minifb::send_inputs
send_inputs(buf) == Some(buf)

\* The `match event` after the poll: whether the loop breaks.
LoopBreaks_OnAnyEvent(signal) == signal # "None"

LoopBreaks(signal) == signal = "ProgramExit"

Log(step) == [hist EXCEPT !.steps = Append(@, step)]

\* The sections of the loop body in the order the loop runs them.
NextPhase_PollFirst(p) ==
  CASE p = "timers" -> "input"
    [] p = "input" -> "exec"
    [] p = "exec" -> "sleep"
    [] p = "sleep" -> "timers"

NextPhase(p) ==
  CASE p = "timers" -> "exec"
    [] p = "exec" -> "input"
    [] p = "input" -> "sleep"
    [] p = "sleep" -> "timers"

\* emu.set_clock_speed(args.emu_clock_hz as f32)
SetClockSpeed(freq) ==
  /\ phase = "new"
  /\ clock_rate' = freq
  /\ phase' = "clocked"
  /\ UNCHANGED << chip8, now, start, tick_next, event, keybuf, frame, tone,
                  hist, last, ops >>

\* emu.load_program(&args.rom)
LoadProgram(data) ==
  /\ phase = "clocked"
  /\ LET r == load_rom(Sys, data)
     IN  /\ SetSys(r.sys)
         /\ last' = Call("load_rom", -1, "None", r.panic, Len(data), None)
         /\ phase' = IF r.panic = NoPanic THEN "loaded" ELSE "panicked"
  /\ UNCHANGED << clock_rate, now, start, tick_next, event, keybuf, frame,
                  tone, hist, ops >>

\* emu.run() up to the loop: tick_next = false, master = Instant::now()
RunEnter ==
  /\ phase = "loaded"
  /\ tick_next' = FALSE
  /\ now' = 0
  /\ phase' = "timers"
  /\ UNCHANGED << chip8, clock_rate, start, event, keybuf, frame, tone,
                  hist, last, ops >>

\* CYCLE START, "CHIP-8 timers" and "Handle Audio"
TimerStep ==
  /\ phase = "timers"
  /\ start' = now
  /\ LET ms == AsMillis(now)
         chk == TimerCheck(ms, tick_next)
         r == IF chk.tick THEN tick_timers(Sys) ELSE [sys |-> Sys, status |-> "None"]
         h1 == [hist EXCEPT !.steps = << >>]
         h2 == IF chk.tick
               THEN [h1 EXCEPT !.last_tick = ms, !.steps = << "tick" >>]
               ELSE IF chk.tick_next /\ ~tick_next THEN [h1 EXCEPT !.armed = ms]
               ELSE h1
     IN  /\ tick_next' = chk.tick_next
         /\ SetSys(r.sys)
         /\ event' = r.status
         /\ last' = IF chk.tick THEN Call("tick", -1, r.status, NoPanic, -1, None)
                    ELSE last
         /\ tone' = IF r.status = "SoundAudio" THEN Pushed({transmit_audio(r.sys)}) ELSE tone
         /\ hist' = IF r.status = "SoundAudio"
                    THEN [h2 EXCEPT !.steps = Append(@, "audio")] ELSE h2
  /\ phase' = NextPhase("timers")
  /\ UNCHANGED << clock_rate, now, keybuf, frame, ops >>

\* "CHIP-8 instruction cycle" and "Handle Display"
ExecStep ==
  /\ phase = "exec"
  /\ LET f == fetch_instruction(Sys)
         w == into_u16(f.instr)
     IN  IF f.panic # NoPanic
         THEN /\ last' = Call("fetch", w, "None", f.panic, -1, None)
              /\ phase' = "panicked"
              /\ UNCHANGED << chip8, event, frame, hist >>
         ELSE \E rnd \in RandsFor(w) :
                LET r == exec_instruction(Sys, f.instr, rnd)
                    h1 == Log("exec")
                    h2 == IF WordIsSetDT(w) THEN [h1 EXCEPT !.dt_set = AsMillis(now)]
                          ELSE IF r.panic = NoPanic /\ get_o(f.instr) = 2
                          THEN [h1 EXCEPT !.calls = @ + 1]
                          ELSE IF r.panic = NoPanic /\ w = 238
                          THEN [h1 EXCEPT !.rets = @ + 1]
                          ELSE h1
                IN  /\ SetSys(r.sys)
                    /\ last' = Call("exec", w, r.status, r.panic, -1, None)
                    /\ event' = r.status
                    /\ phase' = IF r.panic = NoPanic THEN NextPhase("exec") ELSE "panicked"
                    /\ frame' = IF r.panic = NoPanic /\ r.status = "RefreshDisplay"
                                THEN Pushed(transmit_frame(r.sys)) ELSE frame
                    /\ hist' = IF r.panic = NoPanic /\ r.status = "RefreshDisplay"
                               THEN [h2 EXCEPT !.steps = Append(@, "display")]
                               ELSE h2
  /\ UNCHANGED << clock_rate, now, start, tick_next, keybuf, tone, ops >>

\* "Handle Inputs": the poll and the match on its signal
InputStep(open, keys) ==
  /\ phase = "input"
  /\ LET r == handle_inputs(keybuf, open, keys)
     IN  /\ keybuf' = r.keybuf
         /\ event' = r.signal
         /\ SetSys(IF r.signal = "NewInputs"
                   THEN receive_input(Sys, send_inputs(r.keybuf)) ELSE Sys)
         /\ last' = IF r.signal = "NewInputs"
                    THEN Call("receive", -1, "None", NoPanic, -1, send_inputs(r.keybuf))
                    ELSE last
         /\ phase' = IF LoopBreaks(r.signal) THEN "done" ELSE NextPhase("input")
         /\ hist' = [Log("poll") EXCEPT !.polled = r.signal]
  /\ UNCHANGED << clock_rate, now, start, tick_next, frame, tone, ops >>

\* A subtraction that never yields a duration.
checked_sub_None(a, b) == [some |-> FALSE, val |-> 0]

\* Duration::checked_sub: Some(a - b) unless the difference is negative
checked_sub(a, b) ==
  IF a >= b THEN [some |-> TRUE, val |-> a - b] ELSE [some |-> FALSE, val |-> 0]

\* CYCLE END and "Emulator clock speed": `work` is start.elapsed().  hist
\* keeps the time measured and the time slept (-1 when sleep is not called).
SleepStep(work, horizon) ==
  /\ phase = "sleep"
  /\ AsMillis(now) < horizon
  /\ LET t_c == DurationOfCycle(clock_rate)
         cycle_elapsed == work
         rem == checked_sub(t_c, cycle_elapsed)
     IN  /\ now' = start + cycle_elapsed + (IF rem.some THEN rem.val ELSE 0)
         /\ hist' = [Log("sleep") EXCEPT !.elapsed = cycle_elapsed,
                                         !.slept = IF rem.some THEN rem.val ELSE -1]
  /\ phase' = NextPhase("sleep")
  /\ UNCHANGED << chip8, clock_rate, start, tick_next, event, keybuf, frame,
                  tone, last, ops >>

\* The program run at the clock rates F on ROMs R, with the window open as
\* W allows, the keys held down drawn from K, an iteration's work taking a
\* time in D, for `horizon` milliseconds.
Run(F, R, W, K, D, horizon) ==
  \/ \E freq \in F : SetClockSpeed(freq)
  \/ \E data \in R : LoadProgram(data)
  \/ RunEnter
  \/ TimerStep
  \/ ExecStep
  \/ \E open \in W : \E keys \in K : InputStep(open, keys)
  \/ \E work \in D : SleepStep(work, horizon)

(***************************************************************************)
(* ROMs, messages and instruction words the methods are called with.       *)
(***************************************************************************)
\* A ROM of len bytes, none of them zero: the first len bytes of a 16-byte
\* pattern repeated.
Pattern16 == << 18, 52, 86, 120, 154, 188, 222, 241, 35, 69, 103, 137, 171, 205, 239, 1 >>
Pattern64 == Pattern16 \o Pattern16 \o Pattern16 \o Pattern16
Pattern256 == Pattern64 \o Pattern64 \o Pattern64 \o Pattern64
Pattern1024 == Pattern256 \o Pattern256 \o Pattern256 \o Pattern256
Pattern4096 == Pattern1024 \o Pattern1024 \o Pattern1024 \o Pattern1024
PatternRom(len) == SubSeq(Pattern4096, 1, len)

\* 6005 7005 8014 00E0
GoldenRom == << 96, 5, 112, 5, 128, 20, 0, 224 >>

\* The largest ROM load_rom takes, as the memory layout has it: every byte
\* from ROM_START to the end of RAM.
ProgramSpace == RAM_SIZE - ROM_START

Roms ==
  {GoldenRom, PatternRom(ProgramSpace - 1), PatternRom(ProgramSpace),
   PatternRom(ProgramSpace + 1)}

Msgs == {None, Some({}), Some({1}), Some({0, 15})}

\* RET, SYSC 0, CALL 300 / FFE, JMP 200 / 1FE / FFE / FFF, JMP V0 + FFF,
\* LD V0 = 1 / FF
FlowInstrs == {238, 0, 8960, 12286, 4608, 4606, 8190, 8191, 49151, 24577, 24831}

\* SKE V0 = 0, SKNE V0 = 0, SKE V0 V1, SKNE V0 V1, SKP V0, SKNP V0,
\* LD V0 K, LD V1 K, LD V0 = 1 / 0x40, LD V1 = 1
KeyInstrs ==
  {12288, 16384, 20496, 36880, 57502, 57505, 61450, 61706, 24577, 24640, 24833}

\* LD V0 = 1 / 2, LD DT V0, LD ST V0, LD V0 DT
TimerInstrs == {24577, 24578, 61461, 61464, 61447}

SpecFlow == Init /\ [][Calls(FlowInstrs, {None}, Roms)]_vars
\* SYSC 000 / 0E1 / FFF, JMP FFE, SKE V0 V1 with n = 1, 8xy8, E000, F0FF,
\* SKNE V0 V1, LD V0 DT
SysInstrs == {0, 225, 4095, 8190, 20497, 32792, 57344, 61695, 36880, 61447}
SpecSys == Init /\ [][Calls(SysInstrs, {None}, {GoldenRom})]_vars
SpecKeys == Init /\ [][Calls(KeyInstrs, Msgs, {GoldenRom})]_vars
SpecTimers == Init /\ [][Calls(TimerInstrs, {None}, {GoldenRom})]_vars

\* CLRS, LD V0 = 3E, LD V1 = 1E, LD VF = 1, LD I = 04B / FFB / FFC,
\* DRAW V0 V1 5 / 0 / F, DRAW VF V1 5, DRAW V0 VF 5
DrawInstrs ==
  {224, 24638, 24862, 28417, 41035, 45051, 45052, 53269, 53264, 53279,
   57109, 53493}

SpecDraw == Init /\ [][Calls(DrawInstrs, {None}, {GoldenRom})]_vars

\* LD V0 = 01 / FF, LD V1 = 01 / 02, LD VF = FF, ADD V0 01 / FF, ADD VF 01, and
\* 8xy4, 8xy5, 8xy6, 8xy7, 8xyE for (x, y) = (0, 1), (1, 0), (0, 0),
\* (0, F), (F, 0), (F, F)
AluInstrs ==
  {24577, 24831, 24833, 24834, 28671, 28673, 28927, 32513, 32788, 33028, 32772,
   33012, 36612, 36852, 32789, 33029, 32773, 33013, 36613, 36853, 32790,
   33030, 32774, 33014, 36614, 36854, 32791, 33031, 32775, 33015, 36615,
   36855, 32798, 33038, 32782, 33022, 36622, 36862}

SpecAlu == Init /\ [][Calls(AluInstrs, {None}, {GoldenRom})]_vars

\* LD V0 = EA / 0F, LD V1 = 63, LD V2 = FF, LD I = 300 / FFD / FFE,
\* BCD V0 / V1, dump V0..V0 / V2 / VF, load V0..V0 / V2 / VF,
\* LEA I of the font sprite of V0
MemInstrs ==
  {24810, 24591, 24931, 25343, 41728, 45053, 45054,
   61491, 61747, 61525, 62037, 65365, 61541, 62053, 65381, 61481}

SpecMem == Init /\ [][Calls(MemInstrs, {None}, {GoldenRom})]_vars

\* CLRS, RET, CALL 300, LD V0 = 5, DRAW V0 V1 5, SKP V0, LD V0 K,
\* LD DT V0, LD ST V0, LD V0 DT, dump V0
FrameInstrs ==
  {224, 238, 8960, 24581, 53269, 57502, 61450, 61461, 61464, 61447, 61525}

SpecFrame == Init /\ [][Calls(FrameInstrs, {None, Some({5})}, {GoldenRom})]_vars

\* LD V0 = 5; LD DT V0; LD V1 = 2; LD ST V1; DRAW V0 V1 1; LD V2 K; JMP 20A
HostRom == << 96, 5, 240, 21, 97, 2, 241, 24, 208, 17, 242, 10, 18, 10 >>

\* LD V0 = 5; LD DT V0; JMP 204
ClockRom == << 96, 5, 240, 21, 18, 4 >>

MaxMillis == 20
MaxClockMillis == 120

KeySets == {{}, {1}}

\* The program with its window and keyboard, for a short time.
Spec ==
  Init /\ [][Run({2000, 1000}, {HostRom}, BOOLEAN, KeySets, {0, 1000, 1500}, MaxMillis)]_vars

\* The golden ROM, and the timer ROM, at 1000 Hz with window and keyboard.
SpecGolden ==
  Init /\ [][Run({1000}, {GoldenRom, ClockRom}, BOOLEAN, KeySets, {0, 1500}, MaxMillis)]_vars

\* CALL 200 (a call of itself, nesting without end), and
\* CALL 204; JMP 200; RET (a call and its return, over and over)
NestRom == << 34, 0 >>
PairRom == << 34, 4, 18, 0, 0, 238 >>

\* The calling ROMs at 1000 Hz and 2000 Hz.
SpecCalls ==
  Init /\ [][Run({1000, 2000}, {NestRom, PairRom}, BOOLEAN, {{}}, {0, 1500}, MaxMillis)]_vars

\* LD V0 K; LD V1 K; JMP 200
WaitRom == << 240, 10, 241, 10, 18, 0 >>
WaitMsgs == {Some({}), Some({3}), Some({7}), Some({15}), Some({3, 15})}

\* One instruction cycle, system.exec_instruction(system.fetch_instruction()),
\* with the random source returning `key`; cycles follow one another for as
\* long as none panics.
Cycle(key) ==
  /\ last.op # "new" /\ last.panic = NoPanic
  /\ LET f == fetch_instruction(Sys)
         r == exec_instruction(Sys, f.instr, [key |-> key, byte |-> 0])
     IN  IF f.panic # NoPanic
         THEN /\ last' = Call("fetch", into_u16(f.instr), "None", f.panic, -1, None)
              /\ UNCHANGED chip8
         ELSE /\ SetSys(r.sys)
              /\ last' = Call("exec", into_u16(f.instr), r.status, r.panic, -1, None)
  /\ UNCHANGED << host, ops >>

\* A delivery of key states between two cycles.
Deliver(msg) ==
  /\ last.op # "new" /\ last.panic = NoPanic
  /\ SetSys(receive_input(Sys, msg))
  /\ last' = Call("receive", -1, "None", NoPanic, -1, msg)
  /\ UNCHANGED << host, ops >>

WaitNext ==
  \/ CallLoadRom(WaitRom)
  \/ \E key \in 0 .. NUM_KEYS - 1 : Cycle(key)
  \/ \E msg \in WaitMsgs : Deliver(msg)

\* The waiting ROM run without end: the loop keeps cycling, and the random
\* source returns 0 again and again (as a fair source returns every value).
SpecWait ==
  /\ Init /\ [][WaitNext]_vars
  /\ WF_vars(\E key \in 0 .. NUM_KEYS - 1 : Cycle(key))
  /\ SF_vars(Cycle(0))

\* DRAW V0 V1 5; LD I = 005; DRAW V0 V1 5; CLRS; JMP 200
ShowRom == << 208, 21, 160, 5, 208, 21, 0, 224, 18, 0 >>

\* The drawing ROM with window and keyboard.
SpecShow ==
  Init /\ [][Run({1000, 2000}, {ShowRom}, BOOLEAN, KeySets, {0, 1500}, MaxMillis)]_vars

\* LD V0 = 1; LD ST V0; JMP 204
ToneRom == << 96, 1, 240, 24, 18, 4 >>

\* The sounding ROM with window and keyboard.
SpecTone ==
  Init /\ [][Run({1000, 2000}, {ToneRom}, BOOLEAN, KeySets, {0, 1500}, MaxMillis)]_vars

MaxRateMillis == 40

\* The program left alone at 2000 Hz, its iterations taking no measurable
\* time: two iterations in every millisecond.
SpecRate ==
  Init /\ [][Run({2000}, {ClockRom}, {TRUE}, {{}}, {0}, MaxRateMillis)]_vars

\* LD V0 = 80; LD VF = 40; LD I = FFF; ADD I V0; ADD I VF; JMP 206
IndexRom == << 96, 128, 111, 64, 175, 255, 240, 30, 255, 30, 18, 6 >>

\* The indexing ROM run cycle after cycle, without end.
IndexNext ==
  \/ CallLoadRom(IndexRom)
  \/ Cycle(0)

SpecIndex == Init /\ [][IndexNext]_vars

\* The program left alone (window open, no key touched), for a long time.
SpecClock ==
  Init /\ [][Run({2000, 500}, {ClockRom}, {TRUE}, {{}}, {0, 1500}, MaxClockMillis)]_vars

(***************************************************************************)
(* Properties.  A property of one method call is a property of the step    *)
(* that makes the call: last' names the call, the unprimed variables are   *)
(* the struct before it and the primed ones the struct after it.           *)
(***************************************************************************)
Executes(w) == last'.op = "exec" /\ last'.instr = w /\ ops' # ops
Ticks == last'.op = "tick" /\ ops' # ops
Fetches == last'.op = "fetch" /\ ops' # ops

Top(stk) == stk[Len(stk)]
Pop(stk) == SubSeq(stk, 1, Len(stk) - 1)

RET == 238

\* C1 as stated: 00EE with a non-empty stack leaves PC at exactly the
\* address popped, and the stack one entry shorter.
C1_RetPcIsPopped ==
  [][(Executes(RET) /\ stack # << >>)
       => (pc' = Top(stack) /\ stack' = Pop(stack))]_vars

\* C1 amended: 00EE with a non-empty stack pops the stack and leaves PC at
\* the popped address plus 2 (the automatic advance is not suppressed), and
\* changes nothing else.
C1_RetPcIsPoppedPlusStep ==
  [][(Executes(RET) /\ stack # << >>)
       => /\ pc' = Top(stack) + PC_STEP
          /\ stack' = Pop(stack)
          /\ last'.panic = NoPanic
          /\ SysNext = [Sys EXCEPT !.pc = pc', !.stack = stack']]_vars

\* A return has been executed, to the instruction after the CALL at 0x200.
C1_Witness ==
  last.op = "exec" /\ last.instr = RET /\ last.panic = NoPanic /\ pc = ROM_START + PC_STEP

\* C8: load_rom takes every ROM of at most 0xFFF - 0x200 + 1 bytes and
\* panics on every longer one.
C8_LoadAcceptsProgramSpace ==
  last.op = "load_rom" => (last.panic = NoPanic <=> last.len <= ProgramSpace)

\* C9: fetch_instruction succeeds exactly when 0x200 <= PC <= 0xFFE, then
\* returns memory[PC] * 256 + memory[PC + 1], and changes nothing.
C9_FetchBounds ==
  [][Fetches
       => /\ last'.panic = NoPanic <=> (pc >= 512 /\ pc <= 4094)
          /\ last'.panic = NoPanic => last'.instr = memory[pc] * 256 + memory[pc + 1]
          /\ SysNext = Sys]_vars

\* A word has been fetched from the last address that holds one.
C9_Witness ==
  last.op = "fetch" /\ last.panic = NoPanic /\ pc = 4094 /\ last.instr > 255

IsKeySkip(w) == WordO(w) = 14 /\ WordNN(w) \in {158, 161}
IsSkip(w) ==
  \/ WordO(w) \in {3, 4}
  \/ WordO(w) \in {5, 9} /\ WordN(w) = 0
  \/ IsKeySkip(w)

\* Whether the condition of skip instruction w holds in the current state.
SkipTaken(w) ==
  LET vx == v_reg[WordX(w)]
      vy == v_reg[WordY(w)]
  IN  CASE WordO(w) = 3 -> vx = WordNN(w)
        [] WordO(w) = 4 -> vx # WordNN(w)
        [] WordO(w) = 5 -> vx = vy
        [] WordO(w) = 9 -> vx # vy
        [] WordNN(w) = 158 -> vx \in input_bus
        [] OTHER -> vx \notin input_bus

\* C2: a skip instruction (3xnn, 4xnn, 5xy0, 9xy0, and Ex9E / ExA1 with
\* Vx <= 0xF) advances PC by 4 if its condition holds and by 2 otherwise,
\* and changes nothing else.
C2_SkipAdvancesPc ==
  [][(last'.op = "exec" /\ ops' # ops /\ IsSkip(last'.instr)
        /\ (IsKeySkip(last'.instr) => v_reg[WordX(last'.instr)] <= 15))
       => /\ pc' = pc + (IF SkipTaken(last'.instr) THEN 4 ELSE 2)
          /\ SysNext = [Sys EXCEPT !.pc = pc']
          /\ last'.panic = NoPanic
          /\ last'.status = "None"]_vars

\* SKP V0 has skipped, key 0 being down.
C2_Witness ==
  /\ last.op = "exec" /\ last.instr = 57502
  /\ 0 \in input_bus /\ v_reg[0] = 0 /\ pc = ROM_START + 2 * PC_STEP

IsKeyWait(w) == WordO(w) = 15 /\ WordNN(w) = 10

\* C3: Fx0A with no key down changes nothing, PC included; Fx0A with a key
\* down advances PC by 2 and sets Vx to the index of a key that is down.
C3_KeyWaitTakesDownKey ==
  [][(last'.op = "exec" /\ ops' # ops /\ IsKeyWait(last'.instr))
       => IF input_bus = {}
          THEN SysNext = Sys
          ELSE /\ pc' = pc + PC_STEP
               /\ v_reg'[WordX(last'.instr)] \in input_bus
               /\ SysNext = [Sys EXCEPT !.pc = pc', !.v_reg = v_reg']]_vars

\* C10 as stated: tick_timers decrements each positive timer by 1, leaves a
\* zero timer at 0, and returns the sound signal iff sound_timer > 0 after
\* the decrement.
C10_SignalIffSoundAfter ==
  [][Ticks
       => /\ delay_timer' = (IF delay_timer > 0 THEN delay_timer - 1 ELSE 0)
          /\ sound_timer' = (IF sound_timer > 0 THEN sound_timer - 1 ELSE 0)
          /\ last'.status = "SoundAudio" <=> sound_timer' > 0]_vars

\* C10 amended: tick_timers decrements each positive timer by 1, leaves a
\* zero timer at 0, and returns the sound signal iff sound_timer > 0 before
\* the decrement (a sound_timer of 1 before the tick yields the signal).
C10_SignalIffSoundBefore ==
  [][Ticks
       => /\ delay_timer' = (IF delay_timer > 0 THEN delay_timer - 1 ELSE 0)
          /\ sound_timer' = (IF sound_timer > 0 THEN sound_timer - 1 ELSE 0)
          /\ last'.status = (IF sound_timer > 0 THEN "SoundAudio" ELSE "None")
          /\ SysNext = [Sys EXCEPT !.delay_timer = delay_timer',
                                   !.sound_timer = sound_timer']]_vars

\* A tick has taken sound_timer from 1 to 0 and returned the sound signal.
C10_Witness ==
  last.op = "tick" /\ last.status = "SoundAudio" /\ sound_timer = 0 /\ v_reg[0] = 1

(***************************************************************************)
(* The run loop.                                                           *)
(***************************************************************************)
TimerPeriodMs == AsMillis(t_c8timer)
InLoop == phase \in {"timers", "exec", "input", "sleep"}
Range(s) == {s[k] : k \in DOMAIN s}
Count(s, x) == Cardinality({k \in DOMAIN s : s[k] = x})
\* The steps appear in s in an order the ranks allow.
Ordered(s, rank) ==
  \A j, k \in DOMAIN s : j < k => rank[s[j]] <= rank[s[k]]

\* This step of the loop called tick_timers.
LoopTicks == phase = "timers" /\ last'.op = "tick"

\* C4 as stated: the delay timer is ticked once per timer period at every
\* clock rate: once FX15 has set it to 5 and six periods (one to spare,
\* each rounded up to 17 ms) have passed without another FX15, it is 0.
C4_DelayTimerExpires ==
  (InLoop /\ hist.dt_set >= 0
     /\ AsMillis(now) >= hist.dt_set + 6 * (TimerPeriodMs + 1))
    => delay_timer = 0

\* C5: tick_timers is called at most once in a timer period: a call finds
\* tick_next raised, and raised in an arming millisecond (elapsed mod
\* period = 1) that lies after the previous call and before this one, which
\* so falls in a later period than the previous call; the call lowers
\* tick_next.
C5_OneTickPerPeriod ==
  [][LoopTicks =>
       /\ tick_next /\ ~tick_next'
       /\ hist.armed % TimerPeriodMs = 1
       /\ hist.last_tick < hist.armed
       /\ hist.armed < AsMillis(now)
       /\ AsMillis(now) % TimerPeriodMs = 0
       /\ hist.last_tick >= 0 =>
            hist.last_tick \div TimerPeriodMs < AsMillis(now) \div TimerPeriodMs]_vars

\* A second iteration in the millisecond of the third tick, which does not
\* tick again.
C5_Witness ==
  /\ phase = "exec"
  /\ last.op # "tick"
  /\ hist.last_tick >= 2 * TimerPeriodMs
  /\ AsMillis(now) = hist.last_tick

ClaimedRank ==
  [s \in {"poll", "exec", "tick", "display", "audio", "sleep"} |->
     CASE s = "poll" -> 1 [] s = "exec" -> 2 [] s = "tick" -> 3
       [] s = "display" -> 4 [] s = "audio" -> 4 [] s = "sleep" -> 5]

CodeRank ==
  [s \in {"poll", "exec", "tick", "display", "audio", "sleep"} |->
     CASE s = "tick" -> 1 [] s = "audio" -> 2 [] s = "exec" -> 3
       [] s = "display" -> 4 [] s = "poll" -> 5 [] s = "sleep" -> 6]

\* C6 as stated: the steps of an iteration are poll, execute, tick, push
\* display/audio, sleep, and the iteration that reports exit executes no
\* instruction.
C6_PollFirst ==
  /\ Ordered(hist.steps, ClaimedRank)
  /\ phase = "done" => "exec" \notin Range(hist.steps)

\* C6 as the loop runs: the steps of an iteration are tick, push audio,
\* execute, push display, poll, sleep; the instruction of an iteration sees
\* the keys as the polls before this iteration left them, and the
\* iteration that reports exit has executed its instruction.
C6_PollLast ==
  /\ Ordered(hist.steps, CodeRank)
  /\ phase = "exec" => "poll" \notin Range(hist.steps) /\ input_bus = keybuf
  /\ phase = "done" => Count(hist.steps, "exec") = 1

\* An iteration that ticked, pushed audio, executed with key 1 down,
\* polled and slept.
C6_Witness ==
  /\ hist.steps = << "tick", "audio", "exec", "poll", "sleep" >>
  /\ input_bus = {1}

\* C7: the loop is left only by a poll that returns ProgramExit, and every
\* iteration started fetches and executes exactly one instruction.
C7_ExitOnlyOnProgramExit ==
  /\ phase = "done" => hist.polled = "ProgramExit" /\ event = "ProgramExit"
  /\ phase = "exec" => Count(hist.steps, "exec") = 0
  /\ phase \in {"input", "sleep", "done"} => Count(hist.steps, "exec") = 1

\* The loop left after a frame and a tone were pushed, the program blocked
\* in FX0A.
C7_Witness ==
  /\ phase = "done"
  /\ frame.pushed
  /\ tone.pushed
  /\ last.op = "exec" /\ last.instr = 61962 /\ pc = 522

(***************************************************************************)
(* The display.                                                            *)
(***************************************************************************)
IsDraw(w) == WordO(w) = 13
ExecutesSome == last'.op = "exec" /\ ops' # ops

\* The display indices on which the sprite of DXYN word w has a 1 bit in
\* the current state: bit b (MSB first) of sprite byte r falls on
\* ((Vy + r) mod 32) * 64 + ((Vx + b) mod 64).
SpritePixels(w) ==
  LET vx == v_reg[WordX(w)]
      vy == v_reg[WordY(w)]
      ones == {rb \in (0 .. WordN(w) - 1) \X (0 .. 7) :
                 (memory[i_reg + rb[1]] \div (2 ^ (7 - rb[2]))) % 2 = 1}
  IN  {((vy + rb[1]) % 32) * 64 + ((vx + rb[2]) % 64) : rb \in ones}

\* C11: DXYN with I + n <= 4096 XORs the sprite onto the display with
\* wraparound on both axes, at the Vx, Vy read before VF is written; VF
\* becomes 1 iff a sprite 1 bit met a display 1 bit, else 0; no other
\* display bit and nothing else but PC (+2) changes, and the
\* display-changed signal is returned.
C11_DrawXorsSprite ==
  [][(ExecutesSome /\ IsDraw(last'.instr) /\ i_reg + WordN(last'.instr) <= 4096)
       => LET P == SpritePixels(last'.instr)
          IN  /\ display_bus' = (display_bus \ P) \cup (P \ display_bus)
              /\ v_reg' = [v_reg EXCEPT ![15] = IF P \cap display_bus # {} THEN 1 ELSE 0]
              /\ pc' = pc + 2
              /\ last'.status = "RefreshDisplay"
              /\ last'.panic = NoPanic
              /\ SysNext = [Sys EXCEPT !.display_bus = display_bus',
                                       !.v_reg = v_reg', !.pc = pc']]_vars

\* A sprite drawn at (VF, V1) with VF = 1 before: it lies at column 1, and
\* VF is 0 after.
C11_Witness ==
  /\ last.op = "exec" /\ last.instr = 57109 /\ last.panic = NoPanic
  /\ 1 * 64 \notin display_bus /\ 1 \in display_bus /\ v_reg[15] = 0
  /\ v_reg[1] = 0

\* The struct after the instruction just executed is executed once more.
Again == exec_instruction(SysNext, InstrOf(last'.instr), [key |-> 0, byte |-> 0]).sys

FirstOfTwoDraws ==
  /\ ExecutesSome /\ IsDraw(last'.instr) /\ last'.panic = NoPanic
  /\ WordX(last'.instr) # 15 /\ WordY(last'.instr) # 15

\* C12 as stated: the same DXYN (x, y other than F) executed twice in
\* succession restores the display, and VF after the second draw is 1.
C12_SecondDrawCollides ==
  [][FirstOfTwoDraws
       => Again.display_bus = display_bus /\ Again.v_reg[15] = 1]_vars

\* C12 amended: the same DXYN (x, y other than F) executed twice in
\* succession restores the display, and VF after the second draw is 1 iff
\* the sprite has a 1 bit on a pixel that was clear before the first draw.
C12_SecondDrawRestores ==
  [][FirstOfTwoDraws
       => /\ Again.display_bus = display_bus
          /\ Again.v_reg[15] =
               (IF SpritePixels(last'.instr) \ display_bus # {} THEN 1 ELSE 0)]_vars

\* The same sprite drawn twice on the clear display: clear again, VF = 1.
C12_Witness ==
  /\ ops = 2 /\ last.op = "exec" /\ last.instr = 53269
  /\ display_bus = {} /\ v_reg[15] = 1

CLRS == 224

\* C20: after 00E0 transmit_frame yields no 1 bit among its 2048 bits; 00E0
\* returns the display-changed signal, advances PC by 2 and changes nothing
\* else.
C20_ClearScreen ==
  [][Executes(CLRS)
       => /\ transmit_frame(SysNext) = {}
          /\ last'.status = "RefreshDisplay"
          /\ last'.panic = NoPanic
          /\ pc' = pc + 2
          /\ SysNext = [Sys EXCEPT !.display_bus = {}, !.pc = pc']]_vars

\* 00E0 executed as the fourth call, after a collision (or a load) left
\* VF = 1: the display is clear.
C20_Witness ==
  /\ ops = 4 /\ last.op = "exec" /\ last.instr = CLRS
  /\ display_bus = {} /\ v_reg[15] = 1 /\ i_reg = 0 /\ v_reg[0] = 0

(***************************************************************************)
(* Arithmetic.                                                             *)
(***************************************************************************)
IsAlu(w, n) == WordO(w) = 8 /\ WordN(w) = n
ExecutesAlu(n) == ExecutesSome /\ IsAlu(last'.instr, n)
\* The operands of the instruction about to be executed.
OpX == WordX(last'.instr)
OpY == WordY(last'.instr)
Vx == v_reg[OpX]
Vy == v_reg[OpY]

\* The step changes only Vx (to val), then VF (to flag), and steps the PC.
OnlyResultAndFlag(val, flag) ==
  /\ v_reg' = [[v_reg EXCEPT ![OpX] = val] EXCEPT ![15] = flag]
  /\ pc' = pc + 2
  /\ last'.panic = NoPanic /\ last'.status = "None"
  /\ SysNext = [Sys EXCEPT !.v_reg = v_reg', !.pc = pc']

\* C13 as stated: 8xy4 leaves (Vx + Vy) mod 256 in Vx and the carry in VF,
\* for all register indices x and y.
C13_AddSetsSumAndCarry ==
  [][ExecutesAlu(4)
       => /\ v_reg'[OpX] = (Vx + Vy) % 256
          /\ v_reg'[15] = (IF Vx + Vy > 255 THEN 1 ELSE 0)]_vars

\* C13 amended: 8xy4 leaves the carry of Vx + Vy in VF for all x and y, and
\* (Vx + Vy) mod 256 in Vx for all x other than F (for x = F the carry
\* overwrites the sum); nothing else changes but PC.
C13_AddSetsCarryLast ==
  [][ExecutesAlu(4)
       => /\ v_reg'[15] = (IF Vx + Vy > 255 THEN 1 ELSE 0)
          /\ OpX # 15 => v_reg'[OpX] = (Vx + Vy) % 256
          /\ OnlyResultAndFlag((Vx + Vy) % 256, IF Vx + Vy > 255 THEN 1 ELSE 0)]_vars

\* ADD V0 V1 has added 0xFF and 0x01: V0 = 0, VF = 1.
C13_Witness ==
  /\ last.op = "exec" /\ last.instr = 32788 /\ ops = 3
  /\ v_reg[0] = 0 /\ v_reg[1] = 1 /\ v_reg[15] = 1

Diff(a, b) == (a - b + 256) % 256
NotBorrow(a, b) == IF a >= b THEN 1 ELSE 0

\* C14 as stated: 8xy5 leaves (Vx - Vy) mod 256 in Vx and VF = 1 iff
\* Vx >= Vy; 8xy7 leaves (Vy - Vx) mod 256 in Vx and VF = 1 iff Vy >= Vx.
C14_SubSetsDiffAndNotBorrow ==
  [][(ExecutesAlu(5)
        => v_reg'[OpX] = Diff(Vx, Vy) /\ v_reg'[15] = NotBorrow(Vx, Vy))
     /\ (ExecutesAlu(7)
        => v_reg'[OpX] = Diff(Vy, Vx) /\ v_reg'[15] = NotBorrow(Vy, Vx))]_vars

\* C14 amended: 8xy5 leaves VF = 1 iff Vx >= Vy and 8xy7 VF = 1 iff
\* Vy >= Vx, for all x and y; Vx is left (Vx - Vy) mod 256, resp.
\* (Vy - Vx) mod 256, for all x other than F (for x = F the flag overwrites
\* the difference); nothing else changes but PC.
C14_SubSetsNotBorrowLast ==
  [][(ExecutesAlu(5)
        => /\ v_reg'[15] = NotBorrow(Vx, Vy)
           /\ OpX # 15 => v_reg'[OpX] = Diff(Vx, Vy)
           /\ OnlyResultAndFlag(Diff(Vx, Vy), NotBorrow(Vx, Vy)))
     /\ (ExecutesAlu(7)
        => /\ v_reg'[15] = NotBorrow(Vy, Vx)
           /\ OpX # 15 => v_reg'[OpX] = Diff(Vy, Vx)
           /\ OnlyResultAndFlag(Diff(Vy, Vx), NotBorrow(Vy, Vx)))]_vars

\* SUB V0 V1 has subtracted 0x02 from 0x01: V0 = 0xFF, VF = 0.
C14_Witness ==
  /\ last.op = "exec" /\ last.instr = 32789 /\ ops = 3
  /\ v_reg[0] = 255 /\ v_reg[1] = 2 /\ v_reg[15] = 0

IsAddImm(w) == WordO(w) = 7

\* C15: 7xnn leaves (Vx + nn) mod 256 in Vx for every x, and changes no
\* other register (VF included, for x other than F) and nothing else but
\* PC.
C15_AddImmediateWraps ==
  [][(ExecutesSome /\ IsAddImm(last'.instr))
       => /\ v_reg' = [v_reg EXCEPT ![OpX] = (Vx + WordNN(last'.instr)) % 256]
          /\ pc' = pc + 2
          /\ last'.panic = NoPanic /\ last'.status = "None"
          /\ SysNext = [Sys EXCEPT !.v_reg = v_reg', !.pc = pc']]_vars

\* ADD V0 01 has taken V0 from 0xFF to 0 and left VF = 0.
C15_Witness ==
  /\ last.op = "exec" /\ last.instr = 28673 /\ ops = 2
  /\ v_reg[0] = 0 /\ v_reg[15] = 0

\* C16 as stated: 8xy6 leaves bit 0 of Vx in VF and Vx >> 1 in Vx; 8xyE
\* leaves bit 7 of Vx in VF and (Vx << 1) mod 256 in Vx; Vy is unchanged
\* for y not in {x, F}.
C16_ShiftSetsResultAndBit ==
  [][(ExecutesAlu(6)
        => /\ v_reg'[15] = Vx % 2 /\ v_reg'[OpX] = Vx \div 2
           /\ OpY \notin {OpX, 15} => v_reg'[OpY] = Vy)
     /\ (ExecutesAlu(14)
        => /\ v_reg'[15] = Vx \div 128 /\ v_reg'[OpX] = (Vx * 2) % 256
           /\ OpY \notin {OpX, 15} => v_reg'[OpY] = Vy)]_vars

\* C16 amended: 8xy6 leaves bit 0 of Vx in VF and 8xyE bit 7 of Vx, for
\* all x and y; Vx is left Vx >> 1, resp. (Vx << 1) mod 256, for all x
\* other than F (for x = F the bit overwrites the shifted value); y and Vy
\* play no part and nothing else changes but PC.
C16_ShiftSetsBitLast ==
  [][(ExecutesAlu(6)
        => /\ v_reg'[15] = Vx % 2
           /\ OpX # 15 => v_reg'[OpX] = Vx \div 2
           /\ OnlyResultAndFlag(Vx \div 2, Vx % 2))
     /\ (ExecutesAlu(14)
        => /\ v_reg'[15] = Vx \div 128
           /\ OpX # 15 => v_reg'[OpX] = (Vx * 2) % 256
           /\ OnlyResultAndFlag((Vx * 2) % 256, Vx \div 128))]_vars

\* SHL V0 {V1} has shifted 0xFF: V0 = 0xFE, VF = 1, V1 = 2 as before.
C16_Witness ==
  /\ last.op = "exec" /\ last.instr = 32798 /\ ops = 3
  /\ v_reg[0] = 254 /\ v_reg[1] = 2 /\ v_reg[15] = 1

(***************************************************************************)
(* Memory.                                                                 *)
(***************************************************************************)
IsDump(w) == WordO(w) = 15 /\ WordNN(w) = 85
IsLoad(w) == WordO(w) = 15 /\ WordNN(w) = 101
IsBcd(w) == WordO(w) = 15 /\ WordNN(w) = 51
IsFont(w) == WordO(w) = 15 /\ WordNN(w) = 41

\* C17: Fx55 with I + x <= 0xFFF writes V0..Vx to memory[I..I+x] and
\* changes no other byte; Fx65 with I + x <= 0xFFF loads V0..Vx from
\* memory[I..I+x] and changes no register above Vx; either changes nothing
\* else but PC, I included, so Fx65 right after Fx55 with the same x leaves
\* every register as it is.
C17_DumpLoadRoundTrip ==
  [][/\ (ExecutesSome /\ IsDump(last'.instr) /\ i_reg + OpX <= 4095)
          => /\ memory' = [a \in i_reg .. i_reg + OpX |-> v_reg[a - i_reg]] @@ memory
             /\ last'.panic = NoPanic
             /\ SysNext = [Sys EXCEPT !.memory = memory', !.pc = pc + 2]
     /\ (ExecutesSome /\ IsLoad(last'.instr) /\ i_reg + OpX <= 4095)
          => /\ v_reg' = [k \in 0 .. OpX |-> memory[i_reg + k]] @@ v_reg
             /\ last'.panic = NoPanic
             /\ SysNext = [Sys EXCEPT !.v_reg = v_reg', !.pc = pc + 2]
     /\ (ExecutesSome /\ IsLoad(last'.instr)
           /\ last.op = "exec" /\ IsDump(last.instr) /\ last.panic = NoPanic
           /\ WordX(last.instr) = OpX)
          => v_reg' = v_reg /\ i_reg' = i_reg]_vars

\* V0..V2 = EA 00 FF dumped at I = 0 by F255 (memory[3] is still the
\* font's) and loaded back by F265.
C17_Witness ==
  /\ ops = 4 /\ last.op = "exec" /\ last.instr = 62053
  /\ i_reg = 0 /\ memory[0] = 234 /\ memory[1] = 0 /\ memory[2] = 255
  /\ memory[3] = 144 /\ v_reg[0] = 234 /\ v_reg[2] = 255

\* C18: Fx33 with I + 2 <= 0xFFF writes the hundreds, tens and ones digits
\* of Vx to memory[I], memory[I+1], memory[I+2], each in 0..9 and together
\* worth Vx, and changes nothing else but PC; the digits are right for
\* every value of Vx in 0..255 (the digit closure d of the instruction is
\* evaluated on all of them).
C18_BcdDigits ==
  [][(ExecutesSome /\ IsBcd(last'.instr) /\ i_reg + 2 <= 4095)
       => /\ memory' = [memory EXCEPT ![i_reg] = Vx \div 100,
                                          ![i_reg + 1] = (Vx \div 10) % 10,
                                          ![i_reg + 2] = Vx % 10]
          /\ 100 * memory'[i_reg] + 10 * memory'[i_reg + 1] + memory'[i_reg + 2] = Vx
          /\ \A k \in 0 .. 2 : memory'[i_reg + k] \in 0 .. 9
          /\ last'.panic = NoPanic
          /\ SysNext = [Sys EXCEPT !.memory = memory', !.pc = pc + 2]
          /\ \A v \in 0 .. 255 :
               /\ 100 * Digit(v, 2) + 10 * Digit(v, 1) + Digit(v, 0) = v
               /\ \A n \in 0 .. 2 : Digit(v, n) \in 0 .. 9]_vars

\* 234 written as 2, 3, 4 at 0x300.
C18_Witness ==
  /\ last.op = "exec" /\ last.instr = 61491 /\ last.panic = NoPanic
  /\ v_reg[0] = 234 /\ i_reg = 768
  /\ memory[768] = 2 /\ memory[769] = 3 /\ memory[770] = 4

\* C19: Fx29 sets I = 5 * Vx; for Vx in 0..0xF the five bytes
\* memory[I..I+4] lie in 0x000-0x04F and are the font sprite of digit Vx,
\* in every state reachable by executing instructions.
C19_FontSpriteAtI ==
  [][(ExecutesSome /\ IsFont(last'.instr) /\ Vx <= 15)
       => /\ i_reg' = 5 * Vx
          /\ i_reg' + 4 <= 79
          /\ \A k \in 0 .. 4 : memory'[i_reg' + k] = FONT_SPRITES[5 * Vx + k + 1]]_vars

(***************************************************************************)
(* Which operation changes what.                                           *)
(***************************************************************************)
Receives == last'.op = "receive" /\ ops' # ops

\* C21: receive_input with a new state leaves exactly that state in the
\* input vector, and with no new state changes nothing; either way nothing
\* but the input vector changes.
C21_ReceiveReplaces ==
  [][Receives
       => IF last'.msg.some
          THEN input_bus' = last'.msg.bits
               /\ SysNext = [Sys EXCEPT !.input_bus = last'.msg.bits]
          ELSE SysNext = Sys]_vars

\* Key 1 delivered after FX0A had read key 15 from the earlier vector
\* {0, 15}: neither 0 nor 15 is left.
C21_Witness ==
  /\ last.op = "receive" /\ last.msg = Some({1}) /\ input_bus = {1}
  /\ v_reg[0] = 15

IsSetDT(w) == WordO(w) = 15 /\ WordNN(w) = 21
IsSetST(w) == WordO(w) = 15 /\ WordNN(w) = 24
IsCall(w) == WordO(w) = 2

\* C22: the display changes only in 00E0 and Dxyn, the input vector only
\* in receive_input, the timers only in tick_timers, Fx15 (delay) and Fx18
\* (sound), the call stack only in 2nnn and 00EE.
C22_DesignatedWriters ==
  [][/\ display_bus' # display_bus
          => ExecutesSome /\ (last'.instr = CLRS \/ IsDraw(last'.instr))
     /\ input_bus' # input_bus => Receives
     /\ delay_timer' # delay_timer
          => Ticks \/ (ExecutesSome /\ IsSetDT(last'.instr))
     /\ sound_timer' # sound_timer
          => Ticks \/ (ExecutesSome /\ IsSetST(last'.instr))
     /\ stack' # stack
          => ExecutesSome /\ (last'.instr = RET \/ IsCall(last'.instr))]_vars

\* A tick has taken the delay timer from 5 to 4, key 5 having been
\* delivered.
C22_Witness ==
  /\ last.op = "tick" /\ delay_timer = 4 /\ v_reg[0] = 5 /\ input_bus = {5}

(***************************************************************************)
(* Decoding.                                                               *)
(***************************************************************************)
Nibble == 0 .. 15

\* The getters of instruction i return the fields of word w.
DecodesAs(i, w) ==
  /\ get_o(i) = w \div 4096
  /\ get_x(i) = (w \div 256) % 16
  /\ get_y(i) = (w \div 16) % 16
  /\ get_n(i) = w % 16
  /\ get_nn(i) = w % 256 /\ get_nn(i) = 16 * get_y(i) + get_n(i)
  /\ get_nnn(i) = w % 4096
  /\ get_nnn(i) = 256 * get_x(i) + 16 * get_y(i) + get_n(i)
  /\ into_u16(i) = w

\* C23: every one of the 65536 words decodes, to the fields o = w div 4096,
\* x = (w div 256) mod 16, y = (w div 16) mod 16, n = w mod 16,
\* nn = w mod 256, nnn = w mod 4096; no two words decode alike and every
\* instruction is the decoding of a word; the word fetched is
\* memory[PC] * 256 + memory[PC + 1].  (The decoder has no state: all words
\* are decoded once, on the struct as constructed.)
C23_DecodeBijection ==
  /\ last.op = "new" =>
       /\ \A w \in 0 .. 65535 : DecodesAs(InstrOf(w), w)
       /\ \A i \in [n3 : Nibble, n2 : Nibble, n1 : Nibble, n0 : Nibble] :
            InstrOf(into_u16(i)) = i
  /\ (last.op = "fetch" /\ last.panic = NoPanic) =>
       /\ last.instr = memory[pc] * 256 + memory[pc + 1]
       /\ DecodesAs(fetch_instruction(Sys).instr, last.instr)

\* The word 0x1234 fetched from the bytes 12 34 at 0x200.
C23_Witness ==
  /\ last.op = "fetch" /\ last.panic = NoPanic /\ last.instr = 4660
  /\ pc = 512 /\ memory[512] = 18 /\ memory[513] = 52

(***************************************************************************)
(* Words without an effect, and words without a row.                       *)
(***************************************************************************)
IsSysc(w) == WordO(w) = 0 /\ w \notin {CLRS, RET}

\* C24: every word 0nnn other than 00E0 and 00EE advances PC by 2, returns
\* no signal, does not panic and changes nothing else (all 4094 of them on
\* the struct as constructed, the ones executed in every state reached); a
\* fetch from zero-filled memory returns the word 0000, and a fetch at
\* PC >= 0xFFF fails.
C24_SyscIsNoOp ==
  /\ \A w \in 0 .. 4095 :
       IsSysc(w) =>
         exec_instruction(Sys, InstrOf(w), [key |-> 0, byte |-> 0])
           = [sys |-> [Sys EXCEPT !.pc = pc + PC_STEP],
              status |-> "None", panic |-> NoPanic]
  /\ [][/\ (ExecutesSome /\ IsSysc(last'.instr)) =>
             /\ last'.status = "None" /\ last'.panic = NoPanic
             /\ SysNext = [Sys EXCEPT !.pc = pc + PC_STEP]
        /\ Fetches =>
             /\ pc >= 4095 => last'.panic # NoPanic
             /\ (pc >= ROM_START /\ pc < 4095 /\ memory[pc] = 0 /\ memory[pc + 1] = 0)
                  => last'.panic = NoPanic /\ last'.instr = 0]_vars

\* The word 0000 fetched at 0xFFE has been executed and the next fetch, at
\* 0x1000, has failed.
C24_Witness ==
  /\ last.op = "fetch" /\ last.panic # NoPanic /\ pc = 4096
  /\ memory[4094] = 0 /\ memory[4095] = 0

\* The words that match no arm.
IsUnmatched(w) ==
  \/ WordO(w) \in {5, 9} /\ WordN(w) # 0
  \/ WordO(w) = 8 /\ WordN(w) \in {8, 9, 10, 11, 12, 13, 15}
  \/ WordO(w) = 14 /\ WordNN(w) \notin {158, 161}
  \/ WordO(w) = 15 /\ WordNN(w) \notin {7, 10, 21, 24, 30, 41, 51, 85, 101}

\* C25: exec_instruction panics with the unrecognized-instruction message
\* for exactly the words 5xyN and 9xyN with N # 0, 8xyN with N in
\* {8,9,A,B,C,D,F}, Exyn other than Ex9E / ExA1 and Fxyn other than Fx07,
\* Fx0A, Fx15, Fx18, Fx1E, Fx29, Fx33, Fx55, Fx65, and then changes nothing
\* (all 65536 words on the struct as constructed, the ones executed in every
\* state reached).
C25_UnrecognizedExactly ==
  /\ \A w \in 0 .. 65535 :
       (exec_instruction(Sys, InstrOf(w), [key |-> 0, byte |-> 0]).panic
          = Unrecognized) <=> IsUnmatched(w)
  /\ [][ExecutesSome =>
          /\ last'.panic = Unrecognized <=> IsUnmatched(last'.instr)
          /\ last'.panic = Unrecognized => SysNext = Sys]_vars

\* 8018 has been executed and was not recognized.
C25_Witness ==
  last.op = "exec" /\ last.instr = 32792 /\ last.panic = Unrecognized

(***************************************************************************)
(* Fatal errors.                                                           *)
(***************************************************************************)
\* C26: 00EE on an empty stack panics and leaves the struct, PC included,
\* as it was; the stack holds one address per CALL not yet returned from
\* (a CALL adds one, a successful RET removes one, nothing else changes its
\* length), so the RET that outnumbers the CALLs finds it empty; and after
\* a panic no further method is called.
C26_RetOnEmptyIsFatal ==
  [][/\ (Executes(RET) /\ stack = << >>)
          => last'.panic # NoPanic /\ SysNext = Sys
     /\ ExecutesSome
          => Len(stack') = Len(stack)
               + (IF IsCall(last'.instr) THEN 1
                  ELSE IF last'.instr = RET /\ stack # << >> THEN -1
                  ELSE 0)
     /\ last.panic # NoPanic => UNCHANGED vars]_vars

\* A RET met an empty stack after the program had run to 0x202 (by
\* CALL 300 and RET, or by one instruction): it has panicked and PC is
\* still 0x202.
C26_Witness ==
  /\ last.op = "exec" /\ last.instr = RET /\ last.panic # NoPanic
  /\ stack = << >> /\ pc = ROM_START + PC_STEP

\* C27: a fetch or an instruction panics only when PC is outside
\* [0x200, 0xFFE] at the fetch, when 00EE meets an empty stack, or when the
\* word matches no arm; every recognized instruction completes.
C27_OnlyListedFatal ==
  [][((Fetches \/ ExecutesSome) /\ last'.panic # NoPanic)
       => \/ Fetches /\ (pc < ROM_START \/ pc > 4094)
          \/ Executes(RET) /\ stack = << >>
          \/ ExecutesSome /\ IsUnmatched(last'.instr)]_vars

\* C28: an instruction that panics has changed nothing: the struct after it
\* is the struct before it.
C28_AbortChangesNothing ==
  [][(ExecutesSome /\ last'.panic # NoPanic) => SysNext = Sys]_vars

(***************************************************************************)
(* The pace of the loop.                                                   *)
(***************************************************************************)
CycleBudget == DurationOfCycle(clock_rate)
EndsIteration == phase = "sleep" /\ phase' = "timers"

\* C29: at the end of an iteration that took `elapsed`, the loop sleeps for
\* budget - elapsed when that is not negative and does not sleep otherwise;
\* the time slept is never negative, and the next iteration starts at least
\* one budget after this one started.
C29_SleepFillsBudget ==
  [][EndsIteration
       => /\ hist'.slept = (IF CycleBudget - hist'.elapsed >= 0
                            THEN CycleBudget - hist'.elapsed ELSE -1)
          /\ hist'.slept >= -1
          /\ now' = start + hist'.elapsed + (IF hist'.slept = -1 THEN 0 ELSE hist'.slept)
          /\ now' - start >= CycleBudget]_vars

\* An iteration at 1000 Hz whose work took no measurable time has slept
\* the whole millisecond, after one that overran and did not sleep.
C29_Witness ==
  /\ phase = "timers" /\ clock_rate = 1000
  /\ hist.elapsed = 0 /\ hist.slept = 1000 /\ now = 2500 /\ start = 1500

(***************************************************************************)
(* Determinism.                                                            *)
(***************************************************************************)
\* What the random source can return to an instruction: every key offset
\* with each of the sampled bytes.
AllRands == [key : 0 .. NUM_KEYS - 1, byte : RandBytes]
IsRandom(w) == WordO(w) = 12 \/ IsKeyWait(w)
GoldenLoaded ==
  InLoop /\ \A k \in 1 .. Len(GoldenRom) : memory[ROM_START + k - 1] = GoldenRom[k]

\* The instruction cycle, the timer section and the input section of the
\* loop as steps.
CycleRuns == phase = "exec" /\ last'.op = "exec" /\ phase' # phase
TimerSectionRuns == phase = "timers" /\ phase' # phase
InputSectionRuns == phase = "input" /\ phase' # phase

\* C30: the state after a cycle is a function of the state before it and of
\* what is delivered in it: an instruction other than Cxnn and Fx0A gives
\* the same struct, status and panic whatever the random source returns,
\* the timer section changes the struct by tick_timers or not at all, and
\* the input section by the bits delivered or not at all; and the ROM
\* 6005 7005 8014 00E0 has V0 = 5 at PC 0x202, V0 = 0x0A at 0x204,
\* V0 = 0x0A and VF = 0 at 0x206, and V0 = 0x0A, V1 = 0, VF = 0 and a clear
\* display at PC 0x208, after its fourth cycle.
C30_GoldenTrace ==
  /\ [](GoldenLoaded =>
          /\ pc = 514 => v_reg[0] = 5
          /\ pc = 516 => v_reg[0] = 10
          /\ pc = 518 => v_reg[0] = 10 /\ v_reg[15] = 0
          /\ pc = 520 => /\ v_reg[0] = 10 /\ v_reg[1] = 0 /\ v_reg[15] = 0
                         /\ display_bus = {}
          /\ pc \in {514, 516, 518, 520} =>
               /\ \A x \in 1 .. 14 : v_reg[x] = 0
               /\ i_reg = 0 /\ stack = << >>)
  /\ [][/\ (CycleRuns /\ ~IsRandom(last'.instr)) =>
             \A rnd \in AllRands :
               exec_instruction(Sys, InstrOf(last'.instr), rnd)
                 = [sys |-> SysNext, status |-> last'.status, panic |-> last'.panic]
        /\ TimerSectionRuns =>
             SysNext = (IF "tick" \in Range(hist'.steps)
                        THEN tick_timers(Sys).sys ELSE Sys)
        /\ InputSectionRuns =>
             SysNext = (IF hist'.polled = "NewInputs"
                        THEN [Sys EXCEPT !.input_bus = last'.msg.bits] ELSE Sys)]_vars

\* The fourth cycle of the golden ROM, 00E0, has just run.
C30_Witness ==
  /\ GoldenLoaded /\ pc = 520 /\ last.op = "exec" /\ last.instr = CLRS
  /\ v_reg[0] = 10 /\ frame.pushed

(***************************************************************************)
(* The program counter.                                                    *)
(***************************************************************************)
IsJmp(w) == WordO(w) = 1
IsJmpV0(w) == WordO(w) = 11
SetsPc(w) ==
  w = RET \/ IsJmp(w) \/ IsCall(w) \/ IsJmpV0(w) \/ IsSkip(w) \/ IsKeyWait(w)

\* C31: an instruction that completes and is not 00EE, 1nnn, 2nnn, Bnnn, a
\* skip or Fx0A leaves PC at PC + 2 (every such word on the struct as
\* constructed, the ones executed in every state reached); 1nnn leaves
\* PC = nnn and Bnnn leaves PC = nnn + V0, not reduced modulo 0x1000, and
\* both change nothing else.
C31_PcAdvance ==
  /\ \A w \in 0 .. 65535 :
       LET r == exec_instruction(Sys, InstrOf(w), [key |-> 0, byte |-> 0])
       IN  (r.panic = NoPanic /\ ~SetsPc(w)) => r.sys.pc = pc + PC_STEP
  /\ [][/\ (ExecutesSome /\ last'.panic = NoPanic /\ ~SetsPc(last'.instr))
             => pc' = pc + PC_STEP
        /\ (ExecutesSome /\ IsJmp(last'.instr))
             => /\ last'.panic = NoPanic /\ last'.status = "None"
                /\ SysNext = [Sys EXCEPT !.pc = WordNNN(last'.instr)]
        /\ (ExecutesSome /\ IsJmpV0(last'.instr))
             => /\ last'.panic = NoPanic /\ last'.status = "None"
                /\ SysNext = [Sys EXCEPT !.pc = WordNNN(last'.instr) + v_reg[0]]]_vars

\* BFFF with V0 = FF has left PC at 0x10FE.
C31_Witness ==
  /\ last.op = "exec" /\ last.instr = 49151 /\ last.panic = NoPanic
  /\ v_reg[0] = 255 /\ pc = 4350

(***************************************************************************)
(* Construction and loading.                                               *)
(***************************************************************************)
LoadsRom == last'.op = "load_rom" /\ ops' # ops

\* C32: the struct as constructed has PC = 0x200, every V register, I and
\* both timers 0, an empty stack, a clear display and no key down, the font
\* bytes at 0x000 - 0x04F and 0 in every other byte; a load_rom that does
\* not panic writes the L bytes of the ROM at 0x200 .. 0x200 + L - 1 and
\* changes nothing else.
C32_FreshAndLoaded ==
  /\ /\ pc = 512 /\ i_reg = 0 /\ delay_timer = 0 /\ sound_timer = 0
     /\ \A r \in 0 .. 15 : v_reg[r] = 0
     /\ stack = << >> /\ display_bus = {} /\ input_bus = {}
     /\ DOMAIN memory = 0 .. 4095
     /\ \A a \in 0 .. 4095 :
          memory[a] = (IF a < 80 THEN FONT_SPRITES[a + 1] ELSE 0)
  /\ [][(LoadsRom /\ last'.panic = NoPanic)
          => \E data \in Roms \cup {GoldenRom} :
               /\ Len(data) = last'.len
               /\ \A a \in 0 .. 4095 :
                    memory'[a] = (IF a >= 512 /\ a < 512 + Len(data)
                                  THEN data[a - 511] ELSE memory[a])
               /\ SysNext = [Sys EXCEPT !.memory = memory']]_vars

\* The largest ROM load_rom takes has been loaded: its first byte is at
\* 0x200 and its last at 0xFFE, and the first font byte is in place.
C32_Witness ==
  /\ last.op = "load_rom" /\ last.panic = NoPanic /\ last.len = 3583
  /\ memory[512] = 18 /\ memory[4094] = 239 /\ memory[4095] = 0
  /\ memory[0] = 240 /\ pc = 512

(***************************************************************************)
(* Calls and returns in the running program.                               *)
(***************************************************************************)
\* C33: 2nnn at address a pushes a and sets PC = nnn, at every depth; 00EE
\* on a non-empty stack pops the address a of a CALL and resumes at a + 2,
\* not at the CALL; and the stack depth is the number of CALLs executed
\* minus the number of RETs executed.
C33_CallsPairWithReturns ==
  /\ [](Len(stack) = hist.calls - hist.rets)
  /\ [][/\ (CycleRuns /\ IsCall(last'.instr))
             => /\ last'.panic = NoPanic
                /\ stack' = Append(stack, pc)
                /\ pc' = WordNNN(last'.instr)
                /\ SysNext = [Sys EXCEPT !.pc = pc', !.stack = stack']
        /\ (CycleRuns /\ last'.instr = RET /\ stack # << >>)
             => /\ last'.panic = NoPanic
                /\ IsCall(memory[Top(stack)] * 256 + memory[Top(stack) + 1])
                /\ pc' = Top(stack) + PC_STEP
                /\ stack' = Pop(stack)]_vars

\* A thirteenth nested CALL has succeeded.
C33_Witness ==
  /\ Len(stack) = 13 /\ last.op = "exec" /\ IsCall(last.instr)
  /\ last.panic = NoPanic /\ hist.calls = 13 /\ hist.rets = 0

(***************************************************************************)
(* VF as an operand of the flag instructions.                              *)
(***************************************************************************)
IsFlagOp(w) == WordO(w) = 8 /\ WordN(w) \in {4, 5, 6, 7, 14}

\* The flag of 8xyN on the operand values a = Vx and b = Vy.
FlagOf(n, a, b) ==
  CASE n = 4 -> IF a + b > 255 THEN 1 ELSE 0
    [] n = 5 -> NotBorrow(a, b)
    [] n = 7 -> NotBorrow(b, a)
    [] n = 6 -> a % 2
    [] n = 14 -> a \div 128

\* C34: 8xy4, 8xy5, 8xy6, 8xy7 and 8xyE with x = F leave in VF the flag and
\* not the result, and with x = F or y = F the flag is the one of the
\* values Vx and Vy (VF among them) held before the instruction.
C34_FlagWinsInVF ==
  [][(ExecutesSome /\ IsFlagOp(last'.instr) /\ (OpX = 15 \/ OpY = 15))
       => /\ last'.panic = NoPanic
          /\ v_reg'[15] = FlagOf(WordN(last'.instr), Vx, Vy)
          /\ \A r \in 0 .. 14 : r # OpX => v_reg'[r] = v_reg[r]]_vars

\* ADD VF VF has added 0xFF to itself: the sum is 0xFE and VF holds the
\* carry, 1.
C34_Witness ==
  /\ last.op = "exec" /\ last.instr = 36852 /\ ops = 2
  /\ v_reg[15] = 1 /\ v_reg[0] = 0

(***************************************************************************)
(* The key wait in the long run.                                           *)
(***************************************************************************)
AtKeyWait ==
  /\ last.op # "new" /\ pc >= ROM_START /\ pc < ROM_END
  /\ IsKeyWait(memory[pc] * 256 + memory[pc + 1])

\* C35: a VM standing at an Fx0A with a key down gets past it, unless every
\* key is released first; and an Fx0A that completes leaves in Vx the
\* index of a key that is down.
C35_KeyWaitCompletes ==
  /\ (AtKeyWait /\ input_bus # {}) ~> (~AtKeyWait \/ input_bus = {})
  /\ [][(AtKeyWait /\ last'.op = "exec" /\ pc' # pc)
          => /\ pc' = pc + PC_STEP
             /\ v_reg'[WordX(last'.instr)] \in input_bus
             /\ input_bus' = input_bus]_vars

\* F00A has completed with keys 3 and 15 down and taken key 15.
C35_Witness ==
  /\ last.op = "exec" /\ last.instr = 61450 /\ pc = 514
  /\ input_bus = {3, 15} /\ v_reg[0] = 15

(***************************************************************************)
(* What the peripherals hold.                                              *)
(***************************************************************************)
\* The pixels the display peripheral shows: those of the last frame
\* pushed, none before the first push.
FrameShown == IF frame.pushed THEN frame.msg ELSE {}
IterationEnded == phase \in {"sleep", "timers"}

\* C36: at the end of every iteration the frame last pushed is the VM's
\* display; the cycle pushes the frame exactly when its instruction was
\* 00E0 or Dxyn, and the timer and input sections leave frame and display
\* alone.
C36_FrameTracksDisplay ==
  /\ [](IterationEnded => FrameShown = display_bus)
  /\ [][/\ (CycleRuns /\ last'.panic = NoPanic)
             => IF last'.instr = CLRS \/ IsDraw(last'.instr)
                THEN /\ frame' = Pushed(display_bus')
                     /\ "display" \in Range(hist'.steps)
                ELSE /\ frame' = frame /\ display_bus' = display_bus
                     /\ "display" \notin Range(hist'.steps)
        /\ (TimerSectionRuns \/ InputSectionRuns \/ EndsIteration)
             => frame' = frame /\ display_bus' = display_bus]_vars

\* The second draw of the drawing ROM has been pushed: the sprite of 1 over
\* the sprite of 0, with a collision.
C36_Witness ==
  /\ phase = "sleep" /\ pc = 518 /\ v_reg[15] = 1
  /\ frame.pushed /\ frame.msg = display_bus /\ display_bus # {}

ToneOn == tone = Pushed({TRUE})
ToneOff == tone = Pushed({FALSE})

\* C37: at the end of an iteration that ticked the timers with
\* sound_timer > 0 the boolean last pushed to the audio peripheral is true;
\* the tick that takes sound_timer to 0 pushes false; and false is pushed
\* only after true has been (a sound timer set to 1 or more sounds before
\* it falls silent).
C37_ToneTracksSoundTimer ==
  /\ []((IterationEnded /\ "tick" \in Range(hist.steps) /\ sound_timer > 0)
          => ToneOn)
  /\ [][/\ (LoopTicks /\ sound_timer > 0 /\ sound_timer' = 0) => ToneOff'
        /\ (LoopTicks /\ "audio" \in Range(hist'.steps) /\ ToneOff') => ToneOn]_vars

\* C38: at the end of every iteration that does not exit, the VM's input
\* vector is the key buffer of the input peripheral; a poll that does not
\* exit reports new inputs exactly when the buffer differs from the one at
\* the previous poll, and the loop then delivers the whole buffer.
C38_InputTracksKeys ==
  /\ [](IterationEnded => input_bus = keybuf)
  /\ [][(InputSectionRuns /\ phase' # "done")
          => /\ hist'.polled = "NewInputs" <=> keybuf' # keybuf
             /\ hist'.polled = "NewInputs"
                  => /\ last'.op = "receive" /\ last'.msg = Some(keybuf')
                     /\ SysNext = [Sys EXCEPT !.input_bus = keybuf']
             /\ hist'.polled # "NewInputs" => SysNext = Sys]_vars

\* Key 1 has been released and the release delivered in the iteration of
\* the poll.
C38_Witness ==
  /\ phase = "sleep" /\ hist.polled = "NewInputs"
  /\ keybuf = {} /\ input_bus = {} /\ last.op = "receive" /\ last.msg = Some({})

(***************************************************************************)
(* The rate of the timers.                                                 *)
(***************************************************************************)
\* Whether ms is a whole number of sixtieths of a second, in whole
\* milliseconds (rounded down or up): 0, 16, 17, 33, 34, 50, 66, 67, ...
OnSixtieth(ms) ==
  \E k \in 0 .. (60 * ms) \div 1000 + 1 :
    1000 * k > 60 * (ms - 1) /\ 1000 * k < 60 * (ms + 1)

\* C39: the timers tick with a period of 1/60 s: with iterations shorter
\* than a millisecond, every call of tick_timers falls, in whole
\* milliseconds of master-clock time, on a multiple of 1/60 s (60 calls in
\* 1000 ms, and not more).
C39_TicksOnSixtieths ==
  [][LoopTicks => OnSixtieth(AsMillis(now))]_vars

(***************************************************************************)
(* The address register.                                                   *)
(***************************************************************************)
IsAddI(w) == WordO(w) = 15 /\ WordNN(w) = 30
IsSetI(w) == WordO(w) = 10
\* This step is an instruction cycle that has run an instruction.
Cycles == last'.op = "exec" /\ last.op # "new" /\ pc' # pc

\* C40 as stated: Fx1E leaves I = (I + Vx) mod 65536 and every V register
\* as it was, Annn leaves I = nnn, and I is at most 0xFFF in every state.
C40_IndexStaysInMemory ==
  /\ [](i_reg <= 4095)
  /\ [][/\ (Cycles /\ IsAddI(last'.instr))
             => i_reg' = (i_reg + v_reg[WordX(last'.instr)]) % 65536 /\ v_reg' = v_reg
        /\ (Cycles /\ IsSetI(last'.instr)) => i_reg' = WordNNN(last'.instr)]_vars

\* C40 amended: Fx1E leaves I = (I + Vx) mod 65536 and Annn leaves I = nnn,
\* both changing nothing else but PC (no V register, VF included); I is a
\* 16-bit value that Fx1E takes past 0xFFF, and only the wrap at 65536
\* brings it back.
C40_IndexWrapsAtSixteenBits ==
  /\ [](i_reg >= 0 /\ i_reg <= 65535)
  /\ [][/\ (Cycles /\ IsAddI(last'.instr))
             => /\ i_reg' = (i_reg + v_reg[WordX(last'.instr)]) % 65536
                /\ i_reg + v_reg[WordX(last'.instr)] <= 65535
                     => i_reg' = i_reg + v_reg[WordX(last'.instr)]
                /\ last'.panic = NoPanic
                /\ SysNext = [Sys EXCEPT !.i_reg = i_reg', !.pc = pc + PC_STEP]
        /\ (Cycles /\ IsSetI(last'.instr))
             => /\ i_reg' = WordNNN(last'.instr)
                /\ last'.panic = NoPanic
                /\ SysNext = [Sys EXCEPT !.i_reg = i_reg', !.pc = pc + PC_STEP]]_vars

\* ADD I V0 has taken I from 0xFFF to 0x107F, and VF is still 0x40.  (The
\* loop of the ROM goes on to 0xFFFF and wraps, some 960 cycles later.)
C40_Witness ==
  /\ last.op = "exec" /\ last.instr = 61470 /\ last.panic = NoPanic
  /\ i_reg = 4223 /\ v_reg[15] = 64 /\ v_reg[0] = 128

=============================================================================
